---- MODULE Spec2Model ----
(***************************************************************************)
(* Orchestration core of the living-presentation hook useRealtimeAPI:      *)
(* the Exploratory Trigger Scheduler (pending context, debounce timer,     *)
(* dispatch with rollback), pause/resume, stop, the transcript handler     *)
(* and the gate.  Strings are sequences of one-character strings; time is  *)
(* the value of Date.now() in milliseconds.                                *)
(***************************************************************************)
EXTENDS Integers, Sequences, FiniteSets, TLC

\* ------------------------------------------------------------------ bounds
StartClock == 100000     \* Date.now() when the hook is mounted
TickMs == 10000          \* granularity of the clock
MaxElapsed == 20000      \* the clock stops advancing after this much time
MaxPayloads == 2         \* slides accepted and prompts typed per behaviour
MaxDispatches == 2       \* dispatches started per behaviour
MaxSegments == 1         \* finalized speech segments appended per behaviour
MaxFollowups == 1        \* follow-ups in one answer of /api/exploratory-input
AnswerFollowups == 2     \* MaxFollowups of the specification of the answers
MaxStops == 1            \* stop() calls per behaviour
TalkElapsed == 20000     \* MaxElapsed of the specification with speech
WarmPayloads == 3        \* MaxPayloads of the specification that starts warm
WarmDispatches == 3      \* MaxDispatches of the specification that starts warm
FineTickMs == 1000       \* granularity of the clock in the burst scenario
BurstMs == 2000          \* the slides of the burst are accepted within this time
BurstSlides == 3         \* slides accepted in the burst scenario
BurstDispatches == 4     \* MaxDispatches of the burst scenario
BurstElapsed == 22000    \* MaxElapsed of the burst scenario
GateSegments == 4        \* MaxSegments of the specification of the gate
GateDispatches == 1      \* MaxDispatches of the specification of the gate
ThresholdSegments == 2   \* MaxSegments of the specification of the thresholds
LedgerPayloads == 4      \* MaxPayloads of the specification of the ledger
ChannelPayloads == 3     \* slides appended to the channels per behaviour
ChannelDispatches == 4   \* MaxDispatches of the specification of the channels
StreamSegments == 3      \* MaxSegments of the specification of both modes
StreamPayloads == 1      \* MaxPayloads of the specification of both modes
StreamDispatches == 1    \* MaxDispatches of the specification of both modes
CapacityPayloads == 12   \* MaxPayloads of the specification of the capacity
IdeaSegments == 3        \* MaxSegments of the specification of the ideas
LedgerDispatches == 2    \* MaxDispatches of the specification of the ledger

\* ------------------------------------------------------- program constants
EXPLORATORY_INTERVAL_MS == 20000
NullTimeout == 0

\* a second timestamp that no dispatch has, held before the first success
NeverGenerated_MountTime == StartClock

\* lastExploratoryGenerationRef before the first successful dispatch
NeverGenerated == 0

\* ------------------------------------------------------------------ strings
Risks == <<"r", "i", "s", "k", "s", "!">>
Blank == <<" ">>
PaddedRisks == <<" ">> \o Risks \o <<" ">>

RECURSIVE TrimStart(_)
TrimStart(s) ==
    IF s # <<>> /\ Head(s) = " " THEN TrimStart(Tail(s)) ELSE s

RECURSIVE TrimEnd(_)
TrimEnd(s) ==
    IF s # <<>> /\ s[Len(s)] = " " THEN TrimEnd(SubSeq(s, 1, Len(s) - 1)) ELSE s

Trim(s) == TrimEnd(TrimStart(s))

\* inputs of the handlers
PromptInputs == {Blank, PaddedRisks}
Rep(c, n) == [i \in 1..n |-> c]
SegmentInputs == {Risks, <<"h", "i">>}
LongSegmentInputs == {Risks, Rep("x", 21), <<"h", "i">>}
ThresholdInputs == {Rep("x", 20), Rep("x", 21), Rep("x", 30), Rep("x", 31)}
SlideSources == {"question", "slides"}
HeadlineInputs == {<<"s">>, Blank}

VARIABLES
    now,                              \* Date.now()
    connection,                       \* connectionRef.current # null
    generationPaused,                 \* generationPausedRef.current
    pendingExploratoryContext,        \* pendingExploratoryContextRef.current
    lastExploratoryGeneration,        \* lastExploratoryGenerationRef.current
    exploratoryGenerationTimeout,     \* exploratoryGenerationTimeoutRef.current
    timers,                           \* outstanding setTimeout callbacks (due times)
    fullTranscript,                   \* fullTranscriptRef.current
    lastIdeaText,                     \* lastIdeaTextRef.current
    lastGateCheck,                    \* lastGateCheckRef.current
    isGating,                         \* isGatingRef.current
    gateCalls,                        \* the checkSlideGate calls in flight
    gateStatus,                       \* gateStatus state
    priorIdeas,                       \* priorIdeasRef.current
    acceptedSlides,                   \* acceptedSlidesRef.current
    styleReferences,                  \* styleReferencesRef.current
    slideCounter,                     \* slideCounterRef.current
    exploratoryQueue,                 \* exploratoryChannel.queue
    isProcessing,                     \* isProcessing state
    dispatches,                       \* calls of generateExploratorySlidesFromContext
    nextId,                           \* next fresh payload id
    segments,                         \* finalized segments delivered so far
    stops,                            \* stop() calls so far
    limit,                            \* the bounds of the behaviour (never changes)
    cursors,                          \* the cursor of each of the three channels
    audienceQueue,                    \* audienceChannel.queue
    slidesQueue,                      \* slidesChannel.queue
    ideaCalls,                        \* the processIdea calls in flight
    autoAcceptedSlide,                \* autoAcceptedSlide state
    hist                              \* history of the behaviour (claims only)

vars == <<now, connection, generationPaused, pendingExploratoryContext,
          lastExploratoryGeneration, exploratoryGenerationTimeout, timers,
          fullTranscript, lastIdeaText, lastGateCheck, isGating, gateCalls,
          gateStatus, priorIdeas, acceptedSlides,
          styleReferences, slideCounter, exploratoryQueue, isProcessing,
          dispatches, nextId, segments, stops, limit, cursors, audienceQueue,
          slidesQueue, ideaCalls, autoAcceptedSlide, hist>>

\* the Channel Store apart from the queue of the Exploratory channel
store == <<cursors, audienceQueue, slidesQueue>>

\* the state of the stream-of-consciousness mode
stream == <<ideaCalls, autoAcceptedSlide>>

ChannelTypes == {"exploratory", "audience", "slides"}

\* no slide: null
NoSlide == 0

\* ------------------------------------------------------------ pure helpers
EmptyContext ==
    [acceptedSlides |-> <<>>, audienceQuestions |-> <<>>, presenterPrompts |-> <<>>]

HasPendingContext(ctx) ==
    \/ Len(ctx.acceptedSlides) > 0
    \/ Len(ctx.audienceQuestions) > 0
    \/ Len(ctx.presenterPrompts) > 0

Range(s) == {s[i] : i \in 1..Len(s)}

\* the payloads a context holds, each named by its list and its slide/prompt id
KeysOf(ctx) ==
    {<<"acceptedSlides", p.id>> : p \in Range(ctx.acceptedSlides)}
    \cup {<<"audienceQuestions", p.id>> : p \in Range(ctx.audienceQuestions)}
    \cup {<<"presenterPrompts", p.id>> : p \in Range(ctx.presenterPrompts)}

SetMax(S) == CHOOSE x \in S : \A y \in S : y <= x

\* start time of the latest successful dispatch of the running session, 0 if none
LastSuccessStart(ds, session) ==
    LET ok == {i \in 1..Len(ds) : ds[i].result = "ok" /\ ds[i].doneSession = session}
    IN IF ok = {} THEN 0 ELSE SetMax({ds[i].now : i \in ok})

\* a rollback that overwrites what arrived during the call
RestoreContext_Overwrite(cur, snap) == snap

\* the failure branch: push the captured snapshot onto the current context
RestoreContext(cur, snap) ==
    [acceptedSlides |-> cur.acceptedSlides \o snap.acceptedSlides,
     audienceQuestions |-> cur.audienceQuestions \o snap.audienceQuestions,
     presenterPrompts |-> cur.presenterPrompts \o snap.presenterPrompts]

\* A clearTimeout that leaves the timer armed.
ClearTimeout_Noop(ts, ref) == ts

ClearTimeout(ts, ref) == ts \ {ref}

InFlight == {i \in 1..Len(dispatches) : dispatches[i].phase # "done"}

\* state threaded through triggerExploratoryGeneration
SchedState ==
    [pending |-> pendingExploratoryContext,
     ref |-> exploratoryGenerationTimeout,
     timers |-> timers,
     dispatches |-> dispatches,
     isProcessing |-> isProcessing]

\* the record of one call of generateExploratorySlidesFromContext: the snapshot
\* and the time its continuation holds, and what was true when it started
NewDispatch(s, paused, cause) ==
    [now |-> now, ctx |-> s.pending, cause |-> cause, paused |-> paused,
     lastAtStart |-> lastExploratoryGeneration,
     prevSuccess |-> LastSuccessStart(s.dispatches, stops),
     burst |-> IF hist.window.open THEN Cardinality(hist.window.ids) ELSE 0,
     phase |-> "followup", result |-> "none", slide |-> FALSE,
     restored |-> FALSE, slideNumber |-> 0,
     several |-> FALSE, pending |-> 0, added |-> 0,
     session |-> stops, doneSession |-> stops]

\* a debounce that always waits the whole interval
Delay_WholeInterval(elapsed) == EXPLORATORY_INTERVAL_MS

\* the time left of the interval, for the deferred dispatch
Delay(elapsed) == EXPLORATORY_INTERVAL_MS - elapsed

\* a dispatch that leaves the batch it sends in the pending context
Trigger_KeepPending(s, paused, forceNow, cause) ==
    IF paused /\ ~forceNow THEN s
    ELSE IF ~HasPendingContext(s.pending) THEN s
    ELSE LET elapsed == now - lastExploratoryGeneration IN
         IF elapsed < EXPLORATORY_INTERVAL_MS /\ ~forceNow
         THEN LET delay == Delay(elapsed) IN
              [s EXCEPT !.timers = ClearTimeout(s.timers, s.ref) \cup {now + delay},
                        !.ref = now + delay]
         ELSE [s EXCEPT !.timers = ClearTimeout(s.timers, s.ref),
                        !.ref = NullTimeout,
                        !.dispatches = Append(s.dispatches, NewDispatch(s, paused, cause)),
                        !.isProcessing = TRUE]

\* a trigger without the check of the paused flag
Trigger_IgnorePaused(s, paused, forceNow, cause) ==
    IF ~HasPendingContext(s.pending) THEN s
    ELSE LET elapsed == now - lastExploratoryGeneration IN
         IF elapsed < EXPLORATORY_INTERVAL_MS /\ ~forceNow
         THEN LET delay == Delay(elapsed) IN
              [s EXCEPT !.timers = ClearTimeout(s.timers, s.ref) \cup {now + delay},
                        !.ref = now + delay]
         ELSE [s EXCEPT !.timers = ClearTimeout(s.timers, s.ref),
                        !.ref = NullTimeout,
                        !.pending = EmptyContext,
                        !.dispatches = Append(s.dispatches, NewDispatch(s, paused, cause)),
                        !.isProcessing = TRUE]

\* triggerExploratoryGeneration(forceNow), up to its first await
Trigger(s, paused, forceNow, cause) ==
    IF paused /\ ~forceNow THEN s
    ELSE IF ~HasPendingContext(s.pending) THEN s
    ELSE LET elapsed == now - lastExploratoryGeneration IN
         IF elapsed < EXPLORATORY_INTERVAL_MS /\ ~forceNow
         THEN LET delay == Delay(elapsed) IN
              [s EXCEPT !.timers = ClearTimeout(s.timers, s.ref) \cup {now + delay},
                        !.ref = now + delay]
         ELSE [s EXCEPT !.timers = ClearTimeout(s.timers, s.ref),
                        !.ref = NullTimeout,
                        !.pending = EmptyContext,
                        !.dispatches = Append(s.dispatches, NewDispatch(s, paused, cause)),
                        !.isProcessing = TRUE]

ApplySched(s) ==
    /\ pendingExploratoryContext' = s.pending
    /\ exploratoryGenerationTimeout' = s.ref
    /\ timers' = s.timers
    /\ dispatches' = s.dispatches
    /\ isProcessing' = s.isProcessing

\* room for k more dispatches within the bound of the model
CanDispatch(k) == Len(dispatches) + k <= limit.dispatches


\* --------------------------------------------------------- history helpers
ClosedWindow == [open |-> FALSE, T |-> 0, base |-> {}, ids |-> {}]

\* what is remembered of one enqueue: when it was made, under which paused
\* flag, which dispatches were in flight, and whether the handler left the
\* payload in the Pending Exploratory Context
EnqRecord(key, kind, after) ==
    [key |-> key, kind |-> kind, paused |-> generationPaused,
     session |-> stops, during |-> InFlight,
     recorded |-> key \in KeysOf(after.pending)]

Started(s) == Len(s.dispatches) > Len(dispatches)

\* the window of a burst: opened when a dispatch succeeds with nothing in
\* flight and generation running, closed by anything but passive enqueues
WindowAfterSuccess(i, inflightAfter, pendingAfter) ==
    IF inflightAfter = {} /\ ~generationPaused
    THEN [open |-> TRUE, T |-> dispatches[i].now,
          base |-> KeysOf(pendingAfter), ids |-> {}]
    ELSE ClosedWindow

\* a completed dispatch of an earlier session, of which nothing is remembered
Forgotten ==
    [now |-> 0, ctx |-> EmptyContext, cause |-> "forgotten", paused |-> FALSE,
     lastAtStart |-> 0, prevSuccess |-> 0, burst |-> 0,
     phase |-> "done", result |-> "forgotten", slide |-> FALSE,
     restored |-> FALSE, slideNumber |-> 0, several |-> FALSE, pending |-> 0,
     added |-> 0, session |-> 0, doneSession |-> 0]

\* the dispatches the history still knows
Known == {i \in 1..Len(dispatches) : dispatches[i].cause # "forgotten"}

\* --------------------------------------------------------- Channel Store
EXPLORATORY_CAPACITY == 10

\* an append that never drops a slide
AddToExploratoryChannel_Unbounded(queue, slide) == Append(queue, slide)

\* addToExploratoryChannel: append, dropping the oldest beyond the capacity
AddToExploratoryChannel(queue, slide) ==
    LET q == Append(queue, slide)
    IN IF Len(q) > EXPLORATORY_CAPACITY
       THEN SubSeq(q, Len(q) - EXPLORATORY_CAPACITY + 1, Len(q))
       ELSE q

Directions == {"prev", "next"}

\* a channel as the Channel Store holds it
ChannelOf(channel) ==
    [queue |-> CASE channel = "exploratory" -> exploratoryQueue
                 [] channel = "audience" -> audienceQueue
                 [] channel = "slides" -> slidesQueue,
     cursor |-> cursors[channel]]

\* the source tag of the slides of a channel
SourceOf(channel) ==
    CASE channel = "exploratory" -> "exploratory"
      [] channel = "audience" -> "question"
      [] channel = "slides" -> "slides"

\* a cursor cut off at the ends of a queue of the given length
ClampCursor(cursor, length) ==
    IF cursor > length - 1
    THEN (IF length > 0 THEN length - 1 ELSE 0)
    ELSE (IF cursor < 0 THEN 0 ELSE cursor)

\* a navigation that steps without looking at the ends of the queue
Navigate_Unclamped(ch, direction) ==
    [ch EXCEPT !.cursor = IF direction = "prev" THEN @ - 1 ELSE @ + 1]

\* navigate(channel, direction): one step, never outside [0, len - 1]
Navigate(ch, direction) ==
    [ch EXCEPT !.cursor = ClampCursor(IF direction = "prev" THEN @ - 1 ELSE @ + 1,
                                      Len(ch.queue))]

\* the queue without its element at position i
WithoutAt(queue, i) == SubSeq(queue, 1, i - 1) \o SubSeq(queue, i + 1, Len(queue))

\* a take that leaves the cursor where it was
Take_KeepsCursor(ch) ==
    IF ch.queue = <<>>
    THEN [slide |-> NoSlide, channel |-> ch]
    ELSE [slide |-> ch.queue[ch.cursor + 1],
          channel |-> [queue |-> WithoutAt(ch.queue, ch.cursor + 1),
                       cursor |-> ch.cursor]]

\* take(channel): removes the slide at the cursor, returns it and clamps the
\* cursor; null and no change on an empty channel
Take(ch) ==
    IF ch.queue = <<>>
    THEN [slide |-> NoSlide, channel |-> ch]
    ELSE LET q == WithoutAt(ch.queue, ch.cursor + 1)
         IN [slide |-> ch.queue[ch.cursor + 1],
             channel |-> [queue |-> q, cursor |-> ClampCursor(ch.cursor, Len(q))]]

\* remove(channel, id): removes by id wherever the cursor is, then clamps
Remove(ch, id) ==
    LET q == SelectSeq(ch.queue, LAMBDA x : x # id)
    IN [queue |-> q, cursor |-> ClampCursor(ch.cursor, Len(q))]

\* the queues after that of one channel has become q
SetQueue(channel, q) ==
    /\ exploratoryQueue' = IF channel = "exploratory" THEN q ELSE exploratoryQueue
    /\ audienceQueue' = IF channel = "audience" THEN q ELSE audienceQueue
    /\ slidesQueue' = IF channel = "slides" THEN q ELSE slidesQueue

\* --------------------------------------------------- Accepted-Slide Ledger
\* slideEntry of recordAcceptedSlide: the projection of the slide that the
\* ledger keeps; headline is slide.headline || title || "Untitled"
SlideEntry(slide, headline) == [id |-> slide.id, headline |-> headline]

\* style references that take every accepted slide
StyleReferencesAfter_Uncapped(refs, entry, ledgerLength) ==
    Append(refs, [headline |-> entry.headline, slideNumber |-> ledgerLength])

\* style references that keep the latest two accepted slides
StyleReferencesAfter_LatestTwo(refs, entry, ledgerLength) ==
    LET r == Append(refs, [headline |-> entry.headline, slideNumber |-> ledgerLength])
    IN IF Len(r) > 2 THEN Tail(r) ELSE r

\* styleReferencesRef after the push of entry onto the ledger, whose length
\* is then ledgerLength: the first 2 entries are kept as style references
StyleReferencesAfter(refs, entry, ledgerLength) ==
    IF Len(refs) < 2
    THEN Append(refs, [headline |-> entry.headline, slideNumber |-> ledgerLength])
    ELSE refs

\* ----------------------------------------------------------------- actions
\* recordAcceptedSlide(slide), with generateAudienceFollowups and
\* generateSlideFollowups; headline is slide.headline || title || "Untitled slide"
RecordAccepted(slide, headline) ==
    /\ CanDispatch(IF slide.source = "question" THEN 2 ELSE 1)
    /\ LET isQuestion == slide.source = "question"
           hasHeadline == Trim(headline) # <<>>
           s0 == SchedState
           s1 == IF isQuestion
                 THEN Trigger([s0 EXCEPT !.pending.audienceQuestions = Append(@, slide)],
                              generationPaused, FALSE, "passive")
                 ELSE s0
           s2 == IF hasHeadline
                 THEN Trigger([s1 EXCEPT !.pending.acceptedSlides = Append(@, slide)],
                              generationPaused, FALSE, "passive")
                 ELSE s1
           added == (IF isQuestion
                     THEN {EnqRecord(<<"audienceQuestions", slide.id>>, "passive", s2)}
                     ELSE {})
                    \cup (IF hasHeadline
                          THEN {EnqRecord(<<"acceptedSlides", slide.id>>, "passive", s2)}
                          ELSE {})
           slideEntry == SlideEntry(slide, headline)
       IN /\ acceptedSlides' = Append(acceptedSlides, slideEntry)
          /\ styleReferences' =
                StyleReferencesAfter(styleReferences, slideEntry,
                                     Len(acceptedSlides) + 1)
          /\ ApplySched(s2)
          /\ hist' = [hist EXCEPT
                !.enq = @ \cup added,
                !.window = IF Started(s2) THEN ClosedWindow
                           ELSE IF @.open
                                THEN [@ EXCEPT !.ids = @ \cup {e.key : e \in added}]
                                ELSE @]
    /\ UNCHANGED <<now, connection, generationPaused, lastExploratoryGeneration,
                   fullTranscript, lastIdeaText, lastGateCheck, isGating, gateCalls,
                   gateStatus, priorIdeas, slideCounter, segments, stops, limit,
                   ideaCalls>>

\* the presenter accepts a slide that no modelled channel holds (a slide of
\* the deck or an answered question): recordAcceptedSlide(slide)
RecordAcceptedSlide(source, headline) ==
    /\ nextId <= limit.payloads
    /\ RecordAccepted([id |-> nextId, source |-> source], headline)
    /\ nextId' = nextId + 1
    /\ UNCHANGED <<exploratoryQueue, store, autoAcceptedSlide>>

\* a use that shows the slide at the cursor and leaves it in its channel
HandleUseChannelSlide_Peek(channel, headline) ==
    LET ch == ChannelOf(channel) IN
    IF ch.queue = <<>>
    THEN UNCHANGED vars
    ELSE /\ RecordAccepted([id |-> ch.queue[ch.cursor + 1],
                            source |-> SourceOf(channel)], headline)
         /\ UNCHANGED <<exploratoryQueue, store, nextId, autoAcceptedSlide>>

\* handleUseChannelSlide(channel): takeSlideFromChannel, then, if there was
\* a slide, recordAcceptedSlide(slide)
HandleUseChannelSlide(channel, headline) ==
    LET taken == Take(ChannelOf(channel)) IN
    IF taken.slide = NoSlide
    THEN UNCHANGED vars
    ELSE /\ SetQueue(channel, taken.channel.queue)
         /\ cursors' = [cursors EXCEPT ![channel] = taken.channel.cursor]
         /\ RecordAccepted([id |-> taken.slide, source |-> SourceOf(channel)],
                           headline)
         /\ UNCHANGED <<nextId, autoAcceptedSlide>>

\* everything but the Channel Store
NotStore ==
    <<now, connection, generationPaused, pendingExploratoryContext,
      lastExploratoryGeneration, exploratoryGenerationTimeout, timers,
      fullTranscript, lastIdeaText, lastGateCheck, isGating, gateCalls,
      gateStatus, priorIdeas, acceptedSlides, styleReferences, slideCounter,
      isProcessing, dispatches, segments, stops, limit, stream, hist>>

\* a new slide arrives in a channel: addToExploratoryChannel,
\* appendAudienceSlide or appendSlidesToSlidesChannel
AppendSlide(channel) ==
    /\ nextId <= limit.payloads
    /\ SetQueue(channel,
                IF channel = "exploratory"
                THEN AddToExploratoryChannel(exploratoryQueue, nextId)
                ELSE Append(ChannelOf(channel).queue, nextId))
    /\ nextId' = nextId + 1
    /\ UNCHANGED <<cursors, NotStore>>

\* navigateChannel(channel, direction)
NavigateChannel(channel, direction) ==
    /\ cursors' = [cursors EXCEPT ![channel] =
                       Navigate(ChannelOf(channel), direction).cursor]
    /\ UNCHANGED <<exploratoryQueue, audienceQueue, slidesQueue, nextId, NotStore>>

\* the slide with the given id is removed from a channel
RemoveFromChannel(channel, id) ==
    LET ch == Remove(ChannelOf(channel), id)
    IN /\ SetQueue(channel, ch.queue)
       /\ cursors' = [cursors EXCEPT ![channel] = ch.cursor]
       /\ UNCHANGED <<nextId, NotStore>>

\* a prompt that asks for an unforced dispatch
PromptTrigger_Unforced(s) == Trigger(s, generationPaused, FALSE, "prompt")

\* the forced trigger of createExploratoryFromPrompt
PromptTrigger(s) == Trigger(s, generationPaused, TRUE, "prompt")

\* createExploratoryFromPrompt(prompt, currentSlide)
CreateExploratoryFromPrompt(raw) ==
    /\ nextId <= limit.payloads
    /\ CanDispatch(1)
    /\ LET trimmed == Trim(raw)
           s0 == [SchedState EXCEPT !.pending.presenterPrompts =
                      Append(@, [id |-> nextId, prompt |-> trimmed])]
           s1 == IF generationPaused THEN s0
                 ELSE PromptTrigger(s0)
           key == <<"presenterPrompts", nextId>>
       IN IF trimmed = <<>>
          THEN UNCHANGED vars
          ELSE /\ ApplySched(s1)
               /\ nextId' = nextId + 1
               /\ hist' = [hist EXCEPT
                     !.enq = @ \cup {EnqRecord(key, "prompt", s1)},
                     !.pausedPrompts = IF generationPaused THEN @ \cup {key} ELSE @,
                     !.window = ClosedWindow]
               /\ UNCHANGED <<now, connection, generationPaused,
                              lastExploratoryGeneration, fullTranscript, lastIdeaText,
                              lastGateCheck, isGating, gateCalls, gateStatus, priorIdeas,
                              acceptedSlides, styleReferences, slideCounter,
                              exploratoryQueue, segments, stops, limit,
                   store, stream>>

\* pauseGeneration()
PauseGeneration ==
    /\ generationPaused' = TRUE
    /\ timers' = IF exploratoryGenerationTimeout # NullTimeout
                 THEN ClearTimeout(timers, exploratoryGenerationTimeout)
                 ELSE timers
    /\ exploratoryGenerationTimeout' = NullTimeout
    /\ hist' = [hist EXCEPT !.window = ClosedWindow,
                            !.pausedPrompts = IF generationPaused THEN @ ELSE {}]
    /\ UNCHANGED <<now, connection, pendingExploratoryContext,
                   lastExploratoryGeneration, fullTranscript, lastIdeaText,
                   lastGateCheck, isGating, gateCalls, gateStatus, priorIdeas,
                   acceptedSlides, styleReferences, slideCounter, exploratoryQueue,
                   isProcessing, dispatches, nextId, segments, stops, limit,
                   store, stream>>

\* a resume that asks for an unforced dispatch
ResumeTrigger_Unforced(s) == Trigger(s, FALSE, FALSE, "resume")

\* the forced trigger of resumeGeneration; the paused flag is already cleared
ResumeTrigger(s) == Trigger(s, FALSE, TRUE, "resume")

\* a resume that never finds the transcript among the pending prompts
AlreadyAdded_Never(prompts, transcriptText) == FALSE

\* presenterPrompts.some((p) => p.prompt === transcriptText)
AlreadyAdded(prompts, transcriptText) ==
    \E i \in 1..Len(prompts) : prompts[i].prompt = transcriptText

\* resumeGeneration()
ResumeGeneration ==
    /\ CanDispatch(1)
    /\ IF ~generationPaused
       THEN UNCHANGED vars
       ELSE LET transcriptText == Trim(fullTranscript)
                prompts == pendingExploratoryContext.presenterPrompts
                alreadyAdded == AlreadyAdded(prompts, transcriptText)
                fold == transcriptText # <<>> /\ ~alreadyAdded
                p1 == IF fold
                      THEN [pendingExploratoryContext EXCEPT !.presenterPrompts =
                                Append(@, [id |-> nextId, prompt |-> transcriptText])]
                      ELSE pendingExploratoryContext
                hasPendingContext == HasPendingContext(p1)
                s0 == [SchedState EXCEPT !.pending = p1]
                s1 == IF hasPendingContext THEN ResumeTrigger(s0) ELSE s0
            IN /\ generationPaused' = FALSE
               /\ ApplySched(s1)
               /\ fullTranscript' = IF hasPendingContext THEN <<>> ELSE fullTranscript
               /\ lastGateCheck' = IF hasPendingContext THEN <<>> ELSE lastGateCheck
               /\ nextId' = IF fold THEN nextId + 1 ELSE nextId
               /\ hist' = [hist EXCEPT
                     !.enq = IF fold
                             THEN @ \cup {EnqRecord(<<"presenterPrompts", nextId>>, "fold", s1)}
                             ELSE @,
                     !.pausedPrompts = {},
                     !.window = ClosedWindow]
               /\ UNCHANGED <<now, connection, lastExploratoryGeneration, lastIdeaText,
                              isGating, gateCalls, gateStatus, priorIdeas, acceptedSlides,
                              styleReferences, slideCounter, exploratoryQueue,
                              segments, stops, limit,
                   store, stream>>

\* the debounce timer fires: triggerExploratoryGeneration(true)
TimerFire ==
    /\ CanDispatch(1)
    /\ \E due \in timers :
        /\ now >= due
        /\ LET s0 == [SchedState EXCEPT !.timers = timers \ {due}]
               s1 == Trigger(s0, generationPaused, TRUE, "timer")
           IN /\ ApplySched(s1)
              /\ hist' = [hist EXCEPT !.window = IF Started(s1) THEN ClosedWindow ELSE @]
    /\ UNCHANGED <<now, connection, generationPaused, lastExploratoryGeneration,
                   fullTranscript, lastIdeaText, lastGateCheck, isGating, gateCalls,
                   gateStatus, priorIdeas, acceptedSlides, styleReferences,
                   slideCounter, exploratoryQueue, nextId, segments, stops, limit,
                   store, stream>>

\* a failure branch that advances the timestamp as the success branch does
FollowupFail_Advances(i) ==
    /\ dispatches[i].phase = "followup"
    /\ pendingExploratoryContext' =
           RestoreContext(pendingExploratoryContext, dispatches[i].ctx)
    /\ isProcessing' = FALSE
    /\ lastExploratoryGeneration' = dispatches[i].now
    /\ dispatches' = [dispatches EXCEPT
           ![i].phase = "done", ![i].result = "fail", ![i].doneSession = stops,
           ![i].restored = KeysOf(dispatches[i].ctx) \subseteq
                               KeysOf(pendingExploratoryContext')]
    /\ UNCHANGED <<now, connection, generationPaused,
                   exploratoryGenerationTimeout, timers, fullTranscript, lastIdeaText,
                   lastGateCheck, isGating, gateCalls, gateStatus, priorIdeas,
                   acceptedSlides, styleReferences, slideCounter, exploratoryQueue,
                   nextId, segments, stops, limit, hist,
                   store, stream>>

\* the /api/exploratory-input call of dispatch i fails (non-ok response or a
\* thrown error): generateExploratorySlidesFromContext returns false and
\* triggerExploratoryGeneration restores the snapshot
FollowupFail(i) ==
    /\ dispatches[i].phase = "followup"
    /\ pendingExploratoryContext' =
           RestoreContext(pendingExploratoryContext, dispatches[i].ctx)
    /\ isProcessing' = FALSE
    /\ dispatches' = [dispatches EXCEPT
           ![i].phase = "done", ![i].result = "fail", ![i].doneSession = stops,
           ![i].restored = KeysOf(dispatches[i].ctx) \subseteq
                               KeysOf(pendingExploratoryContext')]
    /\ UNCHANGED <<now, connection, generationPaused, lastExploratoryGeneration,
                   exploratoryGenerationTimeout, timers, fullTranscript, lastIdeaText,
                   lastGateCheck, isGating, gateCalls, gateStatus, priorIdeas,
                   acceptedSlides, styleReferences, slideCounter, exploratoryQueue,
                   nextId, segments, stops, limit, hist,
                   store, stream>>

\* the answers of /api/exploratory-input: data.followups, of each element
\* whether its headline is a string
FollowupInputs ==
    UNION {[1..n -> [headlineIsString : BOOLEAN, synthesized : {FALSE}]] :
             n \in 0..limit.followups}

\* the follow-up built locally when the answer has no usable one
FallbackFollowup == [headlineIsString |-> TRUE, synthesized |-> TRUE]

\* every usable follow-up of the answer kept
CleanedFollowups_NoSlice(followups) ==
    LET usable == SelectSeq(followups, LAMBDA f : f.headlineIsString)
    IN IF Len(usable) = 0 THEN <<FallbackFollowup>> ELSE usable

\* cleanedFollowups: followups.filter(headline is a string).slice(0, 1), or
\* the fallback when that is empty
CleanedFollowups(followups) ==
    LET usable == SelectSeq(followups, LAMBDA f : f.headlineIsString)
        first == SubSeq(usable, 1, IF Len(usable) < 1 THEN Len(usable) ELSE 1)
    IN IF Len(first) = 0 THEN <<FallbackFollowup>> ELSE first

\* a request stamped with the counter as it stands
NextSlideNumber_NoIncrement(counter) == counter

\* slideCounterRef.current += 1; currentSlideNumber = slideCounterRef.current
NextSlideNumber(counter) == counter + 1

\* the /api/exploratory-input call of dispatch i succeeds: one follow-up (the
\* first usable one or the fallback) goes to generateSlideImage, which returns
\* at once when generation is paused and otherwise calls /api/gemini
FollowupOk(i, followups) ==
    /\ dispatches[i].phase = "followup"
    /\ IF generationPaused
       THEN /\ isProcessing' = FALSE
            /\ lastExploratoryGeneration' = dispatches[i].now
            /\ dispatches' = [dispatches EXCEPT
                   ![i].phase = "done", ![i].result = "ok", ![i].doneSession = stops,
                   ![i].several = Len(followups) > 1,
                   ![i].restored = KeysOf(dispatches[i].ctx) \subseteq
                                       KeysOf(pendingExploratoryContext)]
            /\ UNCHANGED <<slideCounter, hist>>
       ELSE /\ isProcessing' = TRUE
            /\ slideCounter' = NextSlideNumber(slideCounter)
            /\ dispatches' = [dispatches EXCEPT
                   ![i].phase = "image",
                   ![i].several = Len(followups) > 1,
                   ![i].pending = Len(CleanedFollowups(followups)) - 1,
                   ![i].slideNumber = NextSlideNumber(slideCounter)]
            /\ hist' = [hist EXCEPT !.stamps = Append(@, NextSlideNumber(slideCounter))]
            /\ UNCHANGED lastExploratoryGeneration
    /\ UNCHANGED <<now, connection, generationPaused, pendingExploratoryContext,
                   exploratoryGenerationTimeout, timers, fullTranscript, lastIdeaText,
                   lastGateCheck, isGating, gateCalls, gateStatus, priorIdeas,
                   acceptedSlides, styleReferences, exploratoryQueue, nextId,
                   segments, stops, limit,
                   store, stream>>

\* the /api/gemini call of dispatch i completes, with a slide or without one
\* (non-ok response, thrown error, no slide in the answer); either way
\* generateExploratorySlidesFromContext returns true
ImageDone(i, withSlide) ==
    /\ dispatches[i].phase = "image"
    /\ exploratoryQueue' =
           IF withSlide
           THEN AddToExploratoryChannel(exploratoryQueue, dispatches[i].slideNumber)
           ELSE exploratoryQueue
    /\ IF dispatches[i].pending > 0 /\ ~generationPaused
       THEN \* the loop goes on to the next follow-up
            /\ isProcessing' = TRUE
            /\ slideCounter' = NextSlideNumber(slideCounter)
            /\ dispatches' = [dispatches EXCEPT
                   ![i].pending = @ - 1,
                   ![i].added = IF withSlide THEN @ + 1 ELSE @,
                   ![i].slideNumber = NextSlideNumber(slideCounter)]
            /\ hist' = [hist EXCEPT !.stamps = Append(@, NextSlideNumber(slideCounter))]
            /\ UNCHANGED lastExploratoryGeneration
       ELSE /\ isProcessing' = FALSE
            /\ lastExploratoryGeneration' = dispatches[i].now
            /\ dispatches' = [dispatches EXCEPT
                   ![i].phase = "done", ![i].result = "ok", ![i].slide = withSlide,
                   ![i].pending = 0,
                   ![i].added = IF withSlide THEN @ + 1 ELSE @,
                   ![i].doneSession = stops,
                   ![i].restored = KeysOf(dispatches[i].ctx) \subseteq
                                       KeysOf(pendingExploratoryContext)]
            /\ hist' = [hist EXCEPT !.window =
                   WindowAfterSuccess(i, InFlight \ {i}, pendingExploratoryContext)]
            /\ UNCHANGED slideCounter
    /\ UNCHANGED <<now, connection, generationPaused, pendingExploratoryContext,
                   exploratoryGenerationTimeout, timers, fullTranscript, lastIdeaText,
                   lastGateCheck, isGating, gateCalls, gateStatus, priorIdeas,
                   acceptedSlides, styleReferences, nextId,
                   segments, stops, limit,
                   store, stream>>

\* time passes
Tick ==
    /\ now + limit.tick <= StartClock + limit.elapsed
    /\ now' = now + limit.tick
    /\ UNCHANGED <<connection, generationPaused, pendingExploratoryContext,
                   lastExploratoryGeneration, exploratoryGenerationTimeout, timers,
                   fullTranscript, lastIdeaText, lastGateCheck, isGating, gateCalls,
                   gateStatus, priorIdeas, acceptedSlides, styleReferences,
                   slideCounter, exploratoryQueue, isProcessing, dispatches, nextId,
                   segments, stops, limit, hist,
                   store, stream>>


\* an evaluate without the in-flight guard
CheckSlideGate_NoInFlightGuard(g, transcriptText) ==
    IF generationPaused THEN g
    ELSE IF transcriptText = g.lastGateCheck THEN g
    ELSE [isGating |-> TRUE, lastGateCheck |-> transcriptText,
          gateStatus |-> "Analyzing...",
          gateCalls |-> Append(g.gateCalls,
                               [phase |-> "gate", transcript |-> transcriptText,
                                slideNumber |-> 0, session |-> stops])]

\* an evaluate without the comparison with the last transcript evaluated
CheckSlideGate_NoDuplicateGuard(g, transcriptText) ==
    IF generationPaused THEN g
    ELSE IF g.isGating THEN g
    ELSE [isGating |-> TRUE, lastGateCheck |-> transcriptText,
          gateStatus |-> "Analyzing...",
          gateCalls |-> Append(g.gateCalls,
                               [phase |-> "gate", transcript |-> transcriptText,
                                slideNumber |-> 0, session |-> stops])]

\* checkSlideGate(transcriptText) up to its first await; g is the gate state
\* [isGating, lastGateCheck, gateStatus, gateCalls]
CheckSlideGate(g, transcriptText) ==
    IF generationPaused THEN g
    ELSE IF g.isGating THEN g
    ELSE IF transcriptText = g.lastGateCheck THEN g
    ELSE [isGating |-> TRUE, lastGateCheck |-> transcriptText,
          gateStatus |-> "Analyzing...",
          gateCalls |-> Append(g.gateCalls,
                               [phase |-> "gate", transcript |-> transcriptText,
                                slideNumber |-> 0, session |-> stops])]

\* a join without the separator
AppendFinalSegment_NoSeparator(accumulator, text) == accumulator \o text

\* fullTranscriptRef.current ? `${fullTranscriptRef.current} ${text}` : text
AppendFinalSegment(accumulator, text) ==
    IF accumulator # <<>> THEN accumulator \o <<" ">> \o text ELSE text

\* no finalized segment has been delivered in this session
NoSegment == [text |-> <<>>, mode |-> "none"]

\* a threshold that stays at 20 after the first accepted slide
GateThreshold_FirstSlideOnly(accepted) == 20

\* acceptedSlidesRef.current.length === 0 ? 20 : 30
GateThreshold(accepted) == IF Len(accepted) = 0 THEN 20 ELSE 30

\* the Transcript handler registered by start(), in gated mode
Transcript(raw, final) ==
    /\ connection
    /\ segments < limit.segments
    /\ LET text == Trim(raw)
           accumulated == AppendFinalSegment(fullTranscript, text)
           threshold == GateThreshold(acceptedSlides)
           g0 == [isGating |-> isGating, lastGateCheck |-> lastGateCheck,
                  gateStatus |-> gateStatus, gateCalls |-> gateCalls]
           g1 == IF ~generationPaused /\ Len(accumulated) > threshold
                 THEN CheckSlideGate(g0, accumulated)
                 ELSE g0
           heard == [hist EXCEPT !.lastFinal = [text |-> text, mode |-> "gated"]]
       IN IF text = <<>> \/ ~final
          THEN UNCHANGED <<fullTranscript, lastIdeaText, lastGateCheck, isGating,
                           gateCalls, gateStatus, segments, hist>>
          ELSE IF Len(text) <= 5 \/ text = lastIdeaText
          THEN /\ hist' = heard
               /\ UNCHANGED <<fullTranscript, lastIdeaText, lastGateCheck, isGating,
                              gateCalls, gateStatus, segments>>
          ELSE /\ segments' = segments + 1
               /\ lastIdeaText' = text
               /\ fullTranscript' = accumulated
               /\ isGating' = g1.isGating
               /\ lastGateCheck' = g1.lastGateCheck
               /\ gateStatus' = g1.gateStatus
               /\ gateCalls' = g1.gateCalls
               /\ hist' = IF generationPaused \/ Len(accumulated) <= threshold
                          THEN heard
                          ELSE IF Len(g1.gateCalls) > Len(gateCalls)
                          THEN [heard EXCEPT !.lastEvaluated = accumulated]
                          ELSE [heard EXCEPT !.skipped =
                                    IF isGating THEN "inflight" ELSE "same"]
    /\ UNCHANGED <<now, connection, generationPaused, pendingExploratoryContext,
                   lastExploratoryGeneration, exploratoryGenerationTimeout, timers,
                   priorIdeas, acceptedSlides, styleReferences, slideCounter,
                   exploratoryQueue, isProcessing, dispatches, nextId, stops, limit,
                   store, stream>>

\* the calls left when call i has returned
RemoveAt(s, i) == SubSeq(s, 1, i - 1) \o SubSeq(s, i + 1, Len(s))

\* /api/slide-gate answers gate call i with shouldCreateSlide and slideContent;
\* generateSlideImage returns at once when generation is paused
GateAccept(i) ==
    /\ gateCalls[i].phase = "gate"
    /\ priorIdeas' = Append(priorIdeas, gateCalls[i].transcript)
    /\ fullTranscript' = <<>>
    /\ IF generationPaused
       THEN /\ gateStatus' = ""
            /\ isGating' = FALSE
            /\ gateCalls' = RemoveAt(gateCalls, i)
            /\ UNCHANGED <<slideCounter, isProcessing>>
       ELSE /\ gateStatus' = "Creating slide..."
            /\ isProcessing' = TRUE
            /\ slideCounter' = NextSlideNumber(slideCounter)
            /\ gateCalls' = [gateCalls EXCEPT
                   ![i].phase = "image",
                   ![i].slideNumber = NextSlideNumber(slideCounter)]
            /\ UNCHANGED isGating
    /\ hist' = IF generationPaused
               THEN [hist EXCEPT !.ended = "accepted"]
               ELSE [hist EXCEPT !.stamps = Append(@, NextSlideNumber(slideCounter))]
    /\ UNCHANGED <<now, connection, generationPaused, pendingExploratoryContext,
                   lastExploratoryGeneration, exploratoryGenerationTimeout, timers,
                   lastIdeaText, lastGateCheck, acceptedSlides, styleReferences,
                   exploratoryQueue, dispatches, nextId, segments, stops, limit,
                   store, stream>>

\* the /api/gemini call made for gate call i completes, with a slide or without
GateImageDone(i, withSlide) ==
    /\ gateCalls[i].phase = "image"
    /\ exploratoryQueue' =
           IF withSlide
           THEN AddToExploratoryChannel(exploratoryQueue, gateCalls[i].slideNumber)
           ELSE exploratoryQueue
    /\ isProcessing' = FALSE
    /\ gateStatus' = ""
    /\ isGating' = FALSE
    /\ gateCalls' = RemoveAt(gateCalls, i)
    /\ hist' = [hist EXCEPT !.ended = "accepted"]
    /\ UNCHANGED <<now, connection, generationPaused, pendingExploratoryContext,
                   lastExploratoryGeneration, exploratoryGenerationTimeout, timers,
                   fullTranscript, lastIdeaText, lastGateCheck, priorIdeas,
                   acceptedSlides, styleReferences, slideCounter, dispatches, nextId,
                   segments, stops, limit,
                   store, stream>>

\* the reasons /api/slide-gate may return with a rejection ("" for none)
GateReasons == {"", "Not enough content for a slide yet"}

\* a rejection that also drops the accumulated transcript
GateReject_ClearsTranscript(i, reason) ==
    /\ gateCalls[i].phase = "gate"
    /\ gateStatus' = IF reason # "" THEN reason ELSE "Waiting for more content..."
    /\ isGating' = FALSE
    /\ gateCalls' = RemoveAt(gateCalls, i)
    /\ fullTranscript' = <<>>
    /\ hist' = [hist EXCEPT !.ended = "rejected"]
    /\ UNCHANGED <<now, connection, generationPaused, pendingExploratoryContext,
                   lastExploratoryGeneration, exploratoryGenerationTimeout, timers,
                   lastIdeaText, lastGateCheck, priorIdeas,
                   acceptedSlides, styleReferences, slideCounter, exploratoryQueue,
                   isProcessing, dispatches, nextId, segments, stops, limit,
                   store, stream>>

\* /api/slide-gate answers gate call i without a slide to create: the status
\* is data.reason || "Waiting for more content..."
GateReject(i, reason) ==
    /\ gateCalls[i].phase = "gate"
    /\ gateStatus' = IF reason # "" THEN reason ELSE "Waiting for more content..."
    /\ isGating' = FALSE
    /\ gateCalls' = RemoveAt(gateCalls, i)
    /\ hist' = [hist EXCEPT !.ended = "rejected"]
    /\ UNCHANGED <<now, connection, generationPaused, pendingExploratoryContext,
                   lastExploratoryGeneration, exploratoryGenerationTimeout, timers,
                   fullTranscript, lastIdeaText, lastGateCheck, priorIdeas,
                   acceptedSlides, styleReferences, slideCounter, exploratoryQueue,
                   isProcessing, dispatches, nextId, segments, stops, limit,
                   store, stream>>

\* a failure path that leaves the in-flight guard set after a non-ok response
GateFail_KeepsGuard(i, thrown) ==
    /\ gateCalls[i].phase = "gate"
    /\ gateStatus' = IF thrown THEN "Gate check failed" ELSE gateStatus
    /\ isGating' = ~thrown
    /\ gateCalls' = RemoveAt(gateCalls, i)
    /\ hist' = [hist EXCEPT !.ended = IF thrown THEN "thrown" ELSE "notok"]
    /\ UNCHANGED <<now, connection, generationPaused, pendingExploratoryContext,
                   lastExploratoryGeneration, exploratoryGenerationTimeout, timers,
                   fullTranscript, lastIdeaText, lastGateCheck, priorIdeas,
                   acceptedSlides, styleReferences, slideCounter, exploratoryQueue,
                   isProcessing, dispatches, nextId, segments, stops, limit,
                   store, stream>>

\* gate call i fails: fetch or response.json() throws (thrown), or the answer
\* is not ok, for which the code has no branch and leaves the status as it is
GateFail(i, thrown) ==
    /\ gateCalls[i].phase = "gate"
    /\ gateStatus' = IF thrown THEN "Gate check failed" ELSE gateStatus
    /\ isGating' = FALSE
    /\ gateCalls' = RemoveAt(gateCalls, i)
    /\ hist' = [hist EXCEPT !.ended = IF thrown THEN "thrown" ELSE "notok"]
    /\ UNCHANGED <<now, connection, generationPaused, pendingExploratoryContext,
                   lastExploratoryGeneration, exploratoryGenerationTimeout, timers,
                   fullTranscript, lastIdeaText, lastGateCheck, priorIdeas,
                   acceptedSlides, styleReferences, slideCounter, exploratoryQueue,
                   isProcessing, dispatches, nextId, segments, stops, limit,
                   store, stream>>

\* every kept segment taken for a complete idea
IsCompleteIdea_Always(text) == TRUE

\* text.length > 20: the segment goes to processIdea
IsCompleteIdea(text) == Len(text) > 20

\* the Transcript handler registered by start(), in stream-of-consciousness
\* mode: a finalized segment of more than 20 characters goes to processIdea,
\* which returns at once when generation is paused
TranscriptStream(raw, final) ==
    /\ connection
    /\ segments < limit.segments
    /\ LET text == Trim(raw)
           heard == [hist EXCEPT !.lastFinal = [text |-> text, mode |-> "stream"]]
       IN
       IF text = <<>> \/ ~final
       THEN UNCHANGED <<lastIdeaText, segments, isProcessing, slideCounter,
                        ideaCalls, hist>>
       ELSE IF Len(text) <= 5 \/ text = lastIdeaText
       THEN /\ hist' = heard
            /\ UNCHANGED <<lastIdeaText, segments, isProcessing, slideCounter,
                           ideaCalls>>
       ELSE /\ segments' = segments + 1
            /\ lastIdeaText' = text
            /\ IF IsCompleteIdea(text) /\ ~generationPaused
               THEN /\ isProcessing' = TRUE
                    /\ slideCounter' = NextSlideNumber(slideCounter)
                    /\ ideaCalls' = Append(ideaCalls,
                           [content |-> text,
                            slideNumber |-> NextSlideNumber(slideCounter)])
                    /\ hist' = [heard EXCEPT
                           !.stamps = Append(@, NextSlideNumber(slideCounter))]
               ELSE /\ hist' = heard
                    /\ UNCHANGED <<isProcessing, slideCounter, ideaCalls>>
    /\ UNCHANGED <<now, connection, generationPaused, pendingExploratoryContext,
                   lastExploratoryGeneration, exploratoryGenerationTimeout, timers,
                   fullTranscript, lastGateCheck, isGating, gateCalls, gateStatus,
                   priorIdeas, acceptedSlides, styleReferences, exploratoryQueue,
                   dispatches, nextId, stops, limit, store, autoAcceptedSlide>>

\* the /api/gemini call of processIdea call i completes: a slide in the
\* answer becomes autoAcceptedSlide
IdeaDone(i, withSlide) ==
    /\ withSlide => nextId <= limit.payloads
    /\ isProcessing' = FALSE
    /\ ideaCalls' = RemoveAt(ideaCalls, i)
    /\ autoAcceptedSlide' = IF withSlide THEN nextId ELSE autoAcceptedSlide
    /\ nextId' = IF withSlide THEN nextId + 1 ELSE nextId
    /\ UNCHANGED <<now, connection, generationPaused, pendingExploratoryContext,
                   lastExploratoryGeneration, exploratoryGenerationTimeout, timers,
                   fullTranscript, lastIdeaText, lastGateCheck, isGating, gateCalls,
                   gateStatus, priorIdeas, acceptedSlides, styleReferences,
                   slideCounter, exploratoryQueue, dispatches, segments, stops,
                   limit, store, hist>>

\* the effect of PresenterView on autoAcceptedSlide: the slide is shown,
\* recordAcceptedSlide(autoAcceptedSlide), clearAutoAcceptedSlide()
AutoAccept(headline) ==
    /\ autoAcceptedSlide # NoSlide
    /\ RecordAccepted([id |-> autoAcceptedSlide, source |-> "exploratory"], headline)
    /\ autoAcceptedSlide' = NoSlide
    /\ UNCHANGED <<exploratoryQueue, store, nextId>>

\* start(): the transcription connection is opened
Start ==
    /\ ~connection
    /\ connection' = TRUE
    /\ UNCHANGED <<now, generationPaused, pendingExploratoryContext,
                   lastExploratoryGeneration, exploratoryGenerationTimeout, timers,
                   fullTranscript, lastIdeaText, lastGateCheck, isGating, gateCalls,
                   gateStatus, priorIdeas, acceptedSlides, styleReferences,
                   slideCounter, exploratoryQueue, isProcessing, dispatches, nextId,
                   segments, stops, limit, hist,
                   store, stream>>

\* stop()
Stop ==
    /\ stops < limit.stops
    /\ stops' = stops + 1
    /\ connection' = FALSE
    /\ timers' = IF exploratoryGenerationTimeout # NullTimeout
                 THEN ClearTimeout(timers, exploratoryGenerationTimeout)
                 ELSE timers
    /\ exploratoryGenerationTimeout' = NullTimeout
    /\ pendingExploratoryContext' = EmptyContext
    /\ lastExploratoryGeneration' = NeverGenerated
    /\ gateStatus' = ""
    /\ exploratoryQueue' = <<>>
    /\ fullTranscript' = <<>>
    /\ lastGateCheck' = <<>>
    /\ priorIdeas' = <<>>
    /\ acceptedSlides' = <<>>
    /\ styleReferences' = <<>>
    /\ slideCounter' = 0
    /\ generationPaused' = FALSE
    /\ LET kept == {e \in hist.enq : e.during \cap InFlight # {}}
           keptKeys == {e.key : e \in kept}
       IN /\ dispatches' = [i \in 1..Len(dispatches) |->
                   IF /\ dispatches[i].phase = "done"
                      /\ KeysOf(dispatches[i].ctx) \cap keptKeys = {}
                   THEN Forgotten
                   ELSE dispatches[i]]
          /\ hist' = [hist EXCEPT !.window = ClosedWindow, !.pausedPrompts = {},
                                  !.enq = kept, !.lastEvaluated = <<>>,
                                  !.stamps = <<>>, !.lastFinal = NoSegment]
    /\ cursors' = [c \in ChannelTypes |-> 0]
    /\ audienceQueue' = <<>>
    /\ slidesQueue' = <<>>
    /\ UNCHANGED <<now, lastIdeaText, isGating, gateCalls, isProcessing, nextId,
                   segments, limit, stream>>

\* ------------------------------------------------------------------- Init
Fresh ==
    /\ now = StartClock
    /\ connection = FALSE
    /\ generationPaused = FALSE
    /\ pendingExploratoryContext = EmptyContext
    /\ lastExploratoryGeneration = NeverGenerated
    /\ exploratoryGenerationTimeout = NullTimeout
    /\ timers = {}
    /\ fullTranscript = <<>>
    /\ lastIdeaText = <<>>
    /\ lastGateCheck = <<>>
    /\ isGating = FALSE
    /\ gateCalls = <<>>
    /\ gateStatus = ""
    /\ priorIdeas = <<>>
    /\ acceptedSlides = <<>>
    /\ styleReferences = <<>>
    /\ slideCounter = 0
    /\ exploratoryQueue = <<>>
    /\ isProcessing = FALSE
    /\ dispatches = <<>>
    /\ nextId = 1
    /\ segments = 0
    /\ stops = 0
    /\ cursors = [c \in ChannelTypes |-> 0]
    /\ audienceQueue = <<>>
    /\ slidesQueue = <<>>
    /\ ideaCalls = <<>>
    /\ autoAcceptedSlide = NoSlide
    /\ hist = [enq |-> {}, pausedPrompts |-> {}, lastEvaluated |-> <<>>,
               skipped |-> "", ended |-> "", stamps |-> <<>>,
               lastFinal |-> NoSegment,
               window |-> [open |-> FALSE, T |-> 0, base |-> {}, ids |-> {}]]

Init ==
    /\ Fresh
    /\ limit = [payloads |-> MaxPayloads, dispatches |-> MaxDispatches,
                segments |-> MaxSegments, stops |-> MaxStops,
                tick |-> TickMs, elapsed |-> MaxElapsed,
                followups |-> MaxFollowups]

\* ------------------------------------------------------------ specification
SchedNext ==
    \/ \E source \in SlideSources, headline \in HeadlineInputs :
           RecordAcceptedSlide(source, headline)
    \/ \E raw \in PromptInputs : CreateExploratoryFromPrompt(raw)
    \/ PauseGeneration
    \/ ResumeGeneration
    \/ TimerFire
    \/ \E i \in 1..Len(dispatches) : FollowupFail(i)
    \/ \E i \in 1..Len(dispatches), followups \in FollowupInputs :
           FollowupOk(i, followups)
    \/ \E i \in 1..Len(dispatches), withSlide \in BOOLEAN : ImageDone(i, withSlide)
    \/ Tick

Next ==
    \/ SchedNext
    \/ Stop

Spec == Init /\ [][Next]_vars

\* the program after its first dispatch has succeeded: from Fresh, the steps
\* CreateExploratoryFromPrompt(PaddedRisks), FollowupOk(1), ImageDone(1, TRUE)
Warm ==
    /\ now = StartClock
    /\ connection = FALSE
    /\ generationPaused = FALSE
    /\ pendingExploratoryContext = EmptyContext
    /\ lastExploratoryGeneration = StartClock
    /\ exploratoryGenerationTimeout = NullTimeout
    /\ timers = {}
    /\ fullTranscript = <<>>
    /\ lastIdeaText = <<>>
    /\ lastGateCheck = <<>>
    /\ isGating = FALSE
    /\ gateCalls = <<>>
    /\ gateStatus = ""
    /\ priorIdeas = <<>>
    /\ acceptedSlides = <<>>
    /\ styleReferences = <<>>
    /\ slideCounter = 1
    /\ exploratoryQueue = <<1>>
    /\ isProcessing = FALSE
    /\ dispatches = <<
           [now |-> StartClock,
            ctx |-> [EmptyContext EXCEPT !.presenterPrompts =
                        <<[id |-> 1, prompt |-> Risks]>>],
            cause |-> "prompt", paused |-> FALSE, lastAtStart |-> 0,
            prevSuccess |-> 0, burst |-> 0, phase |-> "done",
            result |-> "ok", slide |-> TRUE, restored |-> FALSE,
            slideNumber |-> 1, several |-> FALSE, pending |-> 0, added |-> 1,
            session |-> 0, doneSession |-> 0] >>
    /\ nextId = 2
    /\ segments = 0
    /\ stops = 0
    /\ cursors = [c \in ChannelTypes |-> 0]
    /\ audienceQueue = <<>>
    /\ slidesQueue = <<>>
    /\ ideaCalls = <<>>
    /\ autoAcceptedSlide = NoSlide
    /\ hist = [enq |-> {[key |-> <<"presenterPrompts", 1>>, kind |-> "prompt",
                         paused |-> FALSE, session |-> 0, during |-> {},
                         recorded |-> FALSE]},
               pausedPrompts |-> {}, lastEvaluated |-> <<>>, skipped |-> "",
               ended |-> "", stamps |-> <<1>>, lastFinal |-> NoSegment,
               window |-> [open |-> TRUE, T |-> StartClock, base |-> {}, ids |-> {}]]

InitWarm ==
    /\ Warm
    /\ limit = [payloads |-> WarmPayloads, dispatches |-> WarmDispatches,
                segments |-> MaxSegments, stops |-> MaxStops,
                tick |-> TickMs, elapsed |-> MaxElapsed,
                followups |-> MaxFollowups]

SpecWarm == InitWarm /\ [][Next]_vars

\* the scheduler with the microphone on: speech segments accumulate, so that
\* resumeGeneration finds a transcript to fold in
TalkNext ==
    \/ SchedNext
    \/ Start
    \/ \E raw \in SegmentInputs, final \in BOOLEAN : Transcript(raw, final)

InitTalk ==
    /\ Fresh
    /\ limit = [payloads |-> MaxPayloads, dispatches |-> MaxDispatches,
                segments |-> MaxSegments, stops |-> 0,
                tick |-> TickMs, elapsed |-> TalkElapsed,
                followups |-> MaxFollowups]

SpecTalk == InitTalk /\ [][TalkNext]_vars

\* the burst scenario: a freshly started session in which slides (not
\* question slides) are accepted within BurstMs of the first one
AcceptInBurst ==
    /\ IF dispatches = <<>> THEN TRUE ELSE now <= dispatches[1].now + BurstMs
    /\ RecordAcceptedSlide("slides", <<"s">>)

BurstNext ==
    \/ AcceptInBurst
    \/ TimerFire
    \/ \E i \in 1..Len(dispatches) : FollowupFail(i)
    \/ \E i \in 1..Len(dispatches), followups \in FollowupInputs :
           FollowupOk(i, followups)
    \/ \E i \in 1..Len(dispatches), withSlide \in BOOLEAN : ImageDone(i, withSlide)
    \/ Tick

InitBurst ==
    /\ Fresh
    /\ limit = [payloads |-> BurstSlides, dispatches |-> BurstDispatches,
                segments |-> 0, stops |-> 0,
                tick |-> FineTickMs, elapsed |-> BurstElapsed,
                followups |-> MaxFollowups]

SpecBurst == InitBurst /\ [][BurstNext]_vars

\* the gate: speech long enough to be evaluated, the answers of
\* /api/slide-gate and /api/gemini, pause and resume (whose dispatch carries
\* the folded transcript) and stop
GateNext ==
    \/ Start
    \/ Stop
    \/ \E raw \in LongSegmentInputs, final \in BOOLEAN : Transcript(raw, final)
    \/ \E i \in 1..Len(gateCalls) : GateAccept(i)
    \/ \E i \in 1..Len(gateCalls), withSlide \in BOOLEAN : GateImageDone(i, withSlide)
    \/ \E i \in 1..Len(gateCalls), reason \in GateReasons : GateReject(i, reason)
    \/ \E i \in 1..Len(gateCalls), thrown \in BOOLEAN : GateFail(i, thrown)
    \/ PauseGeneration
    \/ ResumeGeneration
    \/ \E i \in 1..Len(dispatches) : FollowupFail(i)
    \/ \E i \in 1..Len(dispatches), followups \in FollowupInputs :
           FollowupOk(i, followups)
    \/ \E i \in 1..Len(dispatches), withSlide \in BOOLEAN : ImageDone(i, withSlide)

InitGate ==
    /\ Fresh
    /\ limit = [payloads |-> 0, dispatches |-> GateDispatches,
                segments |-> GateSegments, stops |-> MaxStops,
                tick |-> TickMs, elapsed |-> MaxElapsed,
                followups |-> MaxFollowups]

SpecGate == InitGate /\ [][GateNext]_vars

\* the ledger over two sessions: slides of every kind are accepted, the
\* scheduler runs and stop() resets
LedgerNext ==
    \/ \E source \in SlideSources, headline \in HeadlineInputs :
           RecordAcceptedSlide(source, headline)
    \/ Stop
    \/ TimerFire
    \/ \E i \in 1..Len(dispatches) : FollowupFail(i)
    \/ \E i \in 1..Len(dispatches), followups \in FollowupInputs :
           FollowupOk(i, followups)
    \/ \E i \in 1..Len(dispatches), withSlide \in BOOLEAN : ImageDone(i, withSlide)
    \/ Tick

InitLedger ==
    /\ Fresh
    /\ limit = [payloads |-> LedgerPayloads, dispatches |-> LedgerDispatches,
                segments |-> 0, stops |-> MaxStops,
                tick |-> TickMs, elapsed |-> MaxElapsed,
                followups |-> MaxFollowups]

SpecLedger == InitLedger /\ [][LedgerNext]_vars

\* the Channel Store in use: slides arrive in the three channels, the
\* presenter navigates, uses and removes them, and stop() resets; the
\* services do not answer meanwhile
ChannelNext ==
    \/ \E channel \in ChannelTypes : AppendSlide(channel)
    \/ \E channel \in ChannelTypes, direction \in Directions :
           NavigateChannel(channel, direction)
    \/ \E channel \in ChannelTypes, headline \in HeadlineInputs :
           HandleUseChannelSlide(channel, headline)
    \/ \E channel \in ChannelTypes, id \in 1..limit.payloads :
           RemoveFromChannel(channel, id)
    \/ Stop

InitChannels ==
    /\ Fresh
    /\ limit = [payloads |-> ChannelPayloads, dispatches |-> ChannelDispatches,
                segments |-> 0, stops |-> MaxStops,
                tick |-> TickMs, elapsed |-> MaxElapsed,
                followups |-> MaxFollowups]

SpecChannels == InitChannels /\ [][ChannelNext]_vars

\* the Exploratory channel filled beyond its capacity while the presenter
\* navigates it and removes slides from it
CapacityNext ==
    \/ AppendSlide("exploratory")
    \/ \E direction \in Directions : NavigateChannel("exploratory", direction)
    \/ \E id \in 1..limit.payloads : RemoveFromChannel("exploratory", id)
    \/ Stop

InitCapacity ==
    /\ Fresh
    /\ limit = [payloads |-> CapacityPayloads, dispatches |-> GateDispatches,
                segments |-> 0, stops |-> MaxStops,
                tick |-> TickMs, elapsed |-> MaxElapsed,
                followups |-> MaxFollowups]

SpecCapacity == InitCapacity /\ [][CapacityNext]_vars

\* stream-of-consciousness mode with pause and resume, after or between
\* segments heard in gated mode
IdeaNext ==
    \/ Start
    \/ Stop
    \/ \E raw \in LongSegmentInputs, final \in BOOLEAN : Transcript(raw, final)
    \/ \E raw \in LongSegmentInputs, final \in BOOLEAN : TranscriptStream(raw, final)
    \/ \E i \in 1..Len(gateCalls), reason \in GateReasons : GateReject(i, reason)
    \/ \E i \in 1..Len(ideaCalls), withSlide \in BOOLEAN : IdeaDone(i, withSlide)
    \/ \E headline \in HeadlineInputs : AutoAccept(headline)
    \/ PauseGeneration
    \/ ResumeGeneration
    \/ \E i \in 1..Len(dispatches) : FollowupFail(i)

InitIdeas ==
    /\ Fresh
    /\ limit = [payloads |-> StreamPayloads, dispatches |-> StreamDispatches,
                segments |-> IdeaSegments, stops |-> MaxStops,
                tick |-> TickMs, elapsed |-> MaxElapsed,
                followups |-> MaxFollowups]

SpecIdeas == InitIdeas /\ [][IdeaNext]_vars

\* the operations of the scheduler with answers of /api/exploratory-input
\* that hold several follow-ups
InitAnswer ==
    /\ Fresh
    /\ limit = [payloads |-> MaxPayloads, dispatches |-> MaxDispatches,
                segments |-> MaxSegments, stops |-> MaxStops,
                tick |-> TickMs, elapsed |-> MaxElapsed,
                followups |-> AnswerFollowups]

SpecAnswer == InitAnswer /\ [][Next]_vars

\* both modes of the transcript handler (the presenter may switch between
\* segments), with the requests of the gate, of processIdea and of the
\* scheduler in flight together, and stop()
StreamNext ==
    \/ Start
    \/ Stop
    \/ \E raw \in ThresholdInputs, final \in BOOLEAN : Transcript(raw, final)
    \/ \E raw \in ThresholdInputs, final \in BOOLEAN : TranscriptStream(raw, final)
    \/ \E i \in 1..Len(gateCalls) : GateAccept(i)
    \/ \E i \in 1..Len(gateCalls), withSlide \in BOOLEAN : GateImageDone(i, withSlide)
    \/ \E i \in 1..Len(gateCalls), reason \in GateReasons : GateReject(i, reason)
    \/ \E i \in 1..Len(gateCalls), thrown \in BOOLEAN : GateFail(i, thrown)
    \/ \E i \in 1..Len(ideaCalls), withSlide \in BOOLEAN : IdeaDone(i, withSlide)
    \/ \E headline \in HeadlineInputs : AutoAccept(headline)
    \/ \E i \in 1..Len(dispatches) : FollowupFail(i)
    \/ \E i \in 1..Len(dispatches), followups \in FollowupInputs :
           FollowupOk(i, followups)
    \/ \E i \in 1..Len(dispatches), withSlide \in BOOLEAN : ImageDone(i, withSlide)

InitStream ==
    /\ Fresh
    /\ limit = [payloads |-> StreamPayloads, dispatches |-> StreamDispatches,
                segments |-> StreamSegments, stops |-> MaxStops,
                tick |-> TickMs, elapsed |-> MaxElapsed,
                followups |-> MaxFollowups]

SpecStream == InitStream /\ [][StreamNext]_vars

\* speech around the thresholds of the transcript handler, with slides being
\* accepted meanwhile; the services answer within the debounce interval
ThresholdNext ==
    \/ Start
    \/ \E source \in SlideSources, headline \in HeadlineInputs :
           RecordAcceptedSlide(source, headline)
    \/ \E raw \in ThresholdInputs, final \in BOOLEAN : Transcript(raw, final)
    \/ \E i \in 1..Len(gateCalls) : GateAccept(i)
    \/ \E i \in 1..Len(gateCalls), withSlide \in BOOLEAN : GateImageDone(i, withSlide)
    \/ \E i \in 1..Len(gateCalls), reason \in GateReasons : GateReject(i, reason)
    \/ \E i \in 1..Len(gateCalls), thrown \in BOOLEAN : GateFail(i, thrown)
    \/ \E i \in 1..Len(dispatches) : FollowupFail(i)
    \/ \E i \in 1..Len(dispatches), followups \in FollowupInputs :
           FollowupOk(i, followups)
    \/ \E i \in 1..Len(dispatches), withSlide \in BOOLEAN : ImageDone(i, withSlide)

InitThreshold ==
    /\ Fresh
    /\ limit = [payloads |-> MaxPayloads, dispatches |-> MaxDispatches,
                segments |-> ThresholdSegments, stops |-> 0,
                tick |-> TickMs, elapsed |-> MaxElapsed,
                followups |-> MaxFollowups]

SpecThreshold == InitThreshold /\ [][ThresholdNext]_vars

\* ------------------------------------------------------------------ claims
NewDispatches == Len(dispatches') - Len(dispatches)
Newest == dispatches'[Len(dispatches')]
Completing(i) == dispatches[i].phase # "done" /\ dispatches'[i].phase = "done"
NewEnqueues == hist'.enq \ hist.enq

\* C1: in the window opened by a successful dispatch started at T (nothing in
\* flight, generation running), a passive enqueue made before T + interval
\* starts no dispatch and leaves exactly one timer, due at T + interval; only
\* a forced prompt starts a dispatch before T + interval; and when the timer
\* fires exactly one dispatch starts, whose context is what was pending when
\* the window opened together with every payload enqueued in the window.
C1_Step ==
    LET w == hist.window
        passive == NewEnqueues # {} /\ \A e \in NewEnqueues : e.kind = "passive"
    IN /\ (w.open /\ passive /\ now < w.T + EXPLORATORY_INTERVAL_MS)
            => /\ NewDispatches = 0
               /\ timers' = {w.T + EXPLORATORY_INTERVAL_MS}
               /\ exploratoryGenerationTimeout' = w.T + EXPLORATORY_INTERVAL_MS
               /\ KeysOf(pendingExploratoryContext') =
                      w.base \cup w.ids \cup {e.key : e \in NewEnqueues}
       /\ (w.open /\ w.ids # {} /\ NewDispatches > 0
               /\ now < w.T + EXPLORATORY_INTERVAL_MS)
            => Newest.cause = "prompt"
       /\ (w.open /\ w.ids # {} /\ NewDispatches > 0 /\ Newest.cause = "timer")
            => /\ now >= w.T + EXPLORATORY_INTERVAL_MS
               /\ NewDispatches = 1
               /\ KeysOf(Newest.ctx) = w.base \cup w.ids
               /\ timers' = {}

C1_Coalescing == [][C1_Step]_vars

\* C1 witness: a dispatch started by the timer that carries a burst of two
\* payloads enqueued in the window.
C1_Witness ==
    \E i \in Known : dispatches[i].cause = "timer" /\ dispatches[i].burst >= 2

\* the slides accepted so far in the burst scenario, as payloads
BurstKeys == {<<"acceptedSlides", k>> : k \in 1..(nextId - 1)}
SentKeys == UNION {KeysOf(dispatches[i].ctx) : i \in 1..Len(dispatches)}

\* C2 as stated: at most one call of generateExploratorySlidesFromContext is
\* made, and once the three slides are accepted its context holds all three.
C2_OneCallWithAllThree ==
    /\ Len(dispatches) <= 1
    /\ (nextId > BurstSlides /\ Len(dispatches) = 1)
          => KeysOf(dispatches[1].ctx) = BurstKeys

\* C2 amended: the first acceptance starts a call at once whose context is
\* the first slide alone; at most three calls are made; and every accepted
\* slide is in the context of a call or still pending.
C2_BurstCalls ==
    /\ nextId > 1 =>
          /\ Len(dispatches) >= 1
          /\ KeysOf(dispatches[1].ctx) = {<<"acceptedSlides", 1>>}
          /\ dispatches[1].cause = "passive"
    /\ Len(dispatches) <= BurstSlides
    /\ BurstKeys \subseteq SentKeys \cup KeysOf(pendingExploratoryContext)

\* C2 witness: the three slides went out in two calls, the first slide at
\* once and the other two together when the timer fired.
C2_Witness ==
    /\ nextId > BurstSlides
    /\ Len(dispatches) = 2
    /\ dispatches[2].cause = "timer"
    /\ KeysOf(dispatches[2].ctx) = BurstKeys \ {<<"acceptedSlides", 1>>}

\* C3: every dispatch that completed without adding a slide to the Exploratory
\* channel has put its whole batch back into the Pending Exploratory Context.
C3_NoLossOnFailure ==
    \A i \in Known :
        (dispatches[i].phase = "done" /\ ~dispatches[i].slide) => dispatches[i].restored

\* C4 as stated: when a dispatch completes, every payload enqueued while it
\* was in flight is outside its snapshot and is pending or in the context of
\* a later dispatch.
C4_DeferredStep(inSession) ==
    \A i \in InFlight : Completing(i) =>
        \A e \in hist.enq :
            (i \in e.during /\ (inSession => e.session = stops)) =>
                /\ e.key \notin KeysOf(dispatches[i].ctx)
                /\ \/ e.key \in KeysOf(pendingExploratoryContext')
                   \/ \E j \in (i + 1)..Len(dispatches') :
                          e.key \in KeysOf(dispatches'[j].ctx)

C4_NeverDropped == [][C4_DeferredStep(FALSE)]_vars

\* C4 amended: the same, for the payloads enqueued in the session in which
\* the dispatch completes, that is with no stop() between the enqueue and the
\* completion.
C4_NeverDroppedInSession == [][C4_DeferredStep(TRUE)]_vars

\* C4 witness: a dispatch has failed and rolled back, and a payload enqueued
\* while it was in flight is pending together with its batch.
C4_Witness ==
    \E i \in Known :
        /\ dispatches[i].result = "fail"
        /\ KeysOf(dispatches[i].ctx) \subseteq KeysOf(pendingExploratoryContext)
        /\ \E e \in hist.enq :
             i \in e.during /\ e.key \in KeysOf(pendingExploratoryContext)

\* C5: no payload is in the contexts of two dispatches that both succeeded.
C5_NoDoubleSend ==
    \A i, j \in Known :
        (i # j /\ dispatches[i].result = "ok" /\ dispatches[j].result = "ok")
            => KeysOf(dispatches[i].ctx) \cap KeysOf(dispatches[j].ctx) = {}

\* C5 witness: a payload sent twice, by a dispatch that failed and by a later
\* one that succeeded.
C5_Witness ==
    \E i, j \in Known :
        /\ i < j
        /\ dispatches[i].result = "fail"
        /\ dispatches[j].result = "ok"
        /\ KeysOf(dispatches[i].ctx) \cap KeysOf(dispatches[j].ctx) # {}

\* C6: at most one exploratory dispatch is in flight.
C6_AtMostOneInFlight == Cardinality(InFlight) <= 1

\* C7: a dispatch started by an unforced trigger or by the timer starts at
\* least the interval after the start of the latest successful dispatch.
C7_BoundedRate ==
    \A i \in Known :
        (dispatches[i].cause \in {"passive", "timer"} /\ dispatches[i].prevSuccess > 0)
            => dispatches[i].now - dispatches[i].prevSuccess >= EXPLORATORY_INTERVAL_MS

\* C8: lastExploratoryGeneration changes only in the step in which a dispatch
\* completes with success (to the time that dispatch captured) or in stop()
\* (to 0); the step in which a dispatch fails leaves it as it was.
C8_Step ==
    /\ lastExploratoryGeneration' # lastExploratoryGeneration
         => \/ \E i \in InFlight : Completing(i) /\ dispatches'[i].result = "ok"
            \/ stops' = stops + 1 /\ lastExploratoryGeneration' = 0
    /\ \A i \in InFlight :
         /\ (Completing(i) /\ dispatches'[i].result = "ok")
              => lastExploratoryGeneration' = dispatches[i].now
         /\ (Completing(i) /\ dispatches'[i].result = "fail")
              => lastExploratoryGeneration' = lastExploratoryGeneration

C8_LastDispatchFrame == [][C8_Step]_vars

\* C8 witness: a dispatch has failed after another one succeeded, and the
\* timestamp is still the start of the successful one.
C8_Witness ==
    \E i, j \in Known :
        /\ i < j
        /\ dispatches[i].result = "ok"
        /\ dispatches[j].result = "fail"
        /\ dispatches[j].lastAtStart = dispatches[i].now
        /\ lastExploratoryGeneration = dispatches[i].now

\* C9: no dispatch starts while the paused flag is set, and every enqueue made
\* while paused is in the Pending Exploratory Context when its handler returns.
C9_PausedNoDispatch ==
    /\ \A i \in Known : ~dispatches[i].paused
    /\ \A e \in hist.enq : e.paused => e.recorded

\* C9 witness: paused, with a passive payload and a prompt enqueued during the
\* pause both pending.
C9_Witness ==
    /\ generationPaused
    /\ \E e, f \in hist.enq :
         /\ e.paused /\ e.kind = "passive" /\ e.key \in KeysOf(pendingExploratoryContext)
         /\ f.paused /\ f.kind = "prompt" /\ f.key \in KeysOf(pendingExploratoryContext)

\* C10: while generation stays paused no dispatch starts and the prompts typed
\* during the pause stay pending; resume() then starts exactly one dispatch, at
\* once, which carries those prompts and leaves nothing pending.
C10_Step ==
    /\ (generationPaused /\ generationPaused')
         => /\ NewDispatches = 0
            /\ hist'.pausedPrompts \subseteq KeysOf(pendingExploratoryContext')
    /\ (generationPaused /\ ~generationPaused' /\ stops' = stops
            /\ hist.pausedPrompts # {})
         => /\ NewDispatches = 1
            /\ Newest.cause = "resume"
            /\ Newest.now = now
            /\ hist.pausedPrompts \subseteq KeysOf(Newest.ctx)
            /\ pendingExploratoryContext' = EmptyContext

C10_ResumeDispatchesPrompt == [][C10_Step]_vars

\* C10 witness: a dispatch started by resume() less than the interval after the
\* last successful dispatch, carrying a prompt typed while paused.
C10_Witness ==
    \E i \in Known :
        /\ dispatches[i].cause = "resume"
        /\ dispatches[i].lastAtStart > 0
        /\ dispatches[i].now - dispatches[i].lastAtStart < EXPLORATORY_INTERVAL_MS
        /\ \E e \in hist.enq :
             e.kind = "prompt" /\ e.paused /\ e.key \in KeysOf(dispatches[i].ctx)

\* the prompts of a context, in order
PromptTexts(ctx) ==
    [i \in 1..Len(ctx.presenterPrompts) |-> ctx.presenterPrompts[i].prompt]

\* C11: resume() while paused clears the paused flag, and the prompts that go
\* on (in the dispatch it forces, or pending if it starts none) are the
\* pending prompts followed by the trimmed transcript, once, when the
\* transcript is non-empty and no pending prompt equals it, and the pending
\* prompts alone otherwise; resume() while not paused changes nothing.
C11_Step ==
    LET t == Trim(fullTranscript)
        before == PromptTexts(pendingExploratoryContext)
        after == IF NewDispatches = 1
                 THEN PromptTexts(Newest.ctx)
                 ELSE PromptTexts(pendingExploratoryContext')
        fold == t # <<>> /\ t \notin Range(before)
    IN /\ (generationPaused /\ ResumeGeneration)
            => /\ ~generationPaused'
               /\ after = IF fold THEN Append(before, t) ELSE before
               /\ (fold => NewDispatches = 1 /\ Newest.cause = "resume")
       /\ (~generationPaused /\ ResumeGeneration) => UNCHANGED vars

C11_ResumeFoldsOnce == [][C11_Step]_vars

\* C11 witness: resume() dispatched a prompt typed during the pause that
\* equals the accumulated transcript, and the dispatch holds it once.
C11_Witness ==
    \E i \in Known :
        /\ dispatches[i].cause = "resume"
        /\ PromptTexts(dispatches[i].ctx) = <<Risks>>
        /\ lastIdeaText = Risks
        /\ segments = 1
        /\ fullTranscript = <<>>
        /\ \E e \in hist.enq :
             e.kind = "prompt" /\ e.paused /\ e.key \in KeysOf(dispatches[i].ctx)

\* C12: a prompt typed while generation is running starts one dispatch in the
\* same step, at the current time, whose context is everything that was
\* pending together with the prompt, and nothing stays pending.
C12_Step ==
    \A e \in NewEnqueues :
        (e.kind = "prompt" /\ ~generationPaused)
            => /\ NewDispatches = 1
               /\ Newest.cause = "prompt"
               /\ Newest.now = now
               /\ KeysOf(Newest.ctx) = KeysOf(pendingExploratoryContext) \cup {e.key}
               /\ pendingExploratoryContext' = EmptyContext

C12_PromptDispatchesNow == [][C12_Step]_vars

\* C12 witness: a prompt dispatched less than the interval after the last
\* success, together with an accepted slide that was waiting for the timer.
C12_Witness ==
    \E i \in Known :
        /\ dispatches[i].cause = "prompt"
        /\ dispatches[i].lastAtStart > 0
        /\ dispatches[i].now - dispatches[i].lastAtStart < EXPLORATORY_INTERVAL_MS
        /\ Len(dispatches[i].ctx.acceptedSlides) > 0
        /\ Len(dispatches[i].ctx.presenterPrompts) > 0

\* C13: every step leaves at most one timer outstanding, and pause(), stop()
\* and every step that starts a dispatch leave none.
C13_Step ==
    /\ Cardinality(timers') <= 1
    /\ PauseGeneration => timers' = {}
    /\ stops' = stops + 1 => timers' = {}
    /\ NewDispatches > 0 => timers' = {}

C13_OneTimer == [][C13_Step]_vars

\* C13 witness: a forced prompt has just superseded the timer a burst of
\* passive payloads was waiting for.
C13_Witness ==
    \E i \in Known :
        /\ dispatches[i].cause = "prompt"
        /\ dispatches[i].burst >= 1
        /\ dispatches[i].phase = "followup"
        /\ timers = {}

\* C14: stop() leaves the hook in its initial state.
C14_Step ==
    stops' = stops + 1 =>
        /\ timers' = {}
        /\ exploratoryGenerationTimeout' = NullTimeout
        /\ pendingExploratoryContext' = EmptyContext
        /\ lastExploratoryGeneration' = NeverGenerated
        /\ fullTranscript' = <<>>
        /\ exploratoryQueue' = <<>>
        /\ acceptedSlides' = <<>>
        /\ styleReferences' = <<>>
        /\ slideCounter' = 0
        /\ ~generationPaused'
        /\ ~connection'
        /\ lastGateCheck' = <<>>
        /\ priorIdeas' = <<>>
        /\ gateStatus' = ""
        /\ lastIdeaText' = <<>>
        /\ ~isGating'
        /\ ~isProcessing'

C14_StopResets == [][C14_Step]_vars

\* C15: at most one gate call is in flight; a segment that arrives while one
\* is in flight starts none and leaves the gate as it is; and the return of a
\* call starts none.
C15_Step ==
    /\ Len(gateCalls') <= 1
    /\ (Len(gateCalls) = 1 /\ segments' = segments + 1)
         => /\ gateCalls' = gateCalls
            /\ lastGateCheck' = lastGateCheck
            /\ gateStatus' = gateStatus
            /\ isGating' = isGating
    /\ Len(gateCalls') < Len(gateCalls) => gateCalls' = <<>>

C15_OneGateCall == [][C15_Step]_vars

\* C15 witness: an evaluate request was dropped because a call is in flight.
C15_Witness ==
    /\ Len(gateCalls) = 1
    /\ hist.skipped = "inflight"
    /\ fullTranscript # gateCalls[1].transcript

\* C16 as stated: a gate call never carries the transcript of the most recent
\* evaluation that was started (in the running session).
C16_NeverRepeats ==
    [][Len(gateCalls') > Len(gateCalls)
          => gateCalls'[Len(gateCalls')].transcript # hist.lastEvaluated]_vars

\* C16 amended: a gate call never carries the transcript held in
\* lastGateCheck (the last one evaluated since stop() or a dispatching
\* resume() reset it), and a segment that makes the transcript equal to it
\* leaves the gate as it is.
C16_Step ==
    /\ Len(gateCalls') > Len(gateCalls)
         => gateCalls'[Len(gateCalls')].transcript # lastGateCheck
    /\ (segments' = segments + 1 /\ fullTranscript' = lastGateCheck)
         => /\ gateCalls' = gateCalls
            /\ lastGateCheck' = lastGateCheck
            /\ gateStatus' = gateStatus
            /\ isGating' = isGating

C16_NeverRepeatsLastGateCheck == [][C16_Step]_vars

\* C16 witness: with no call in flight, a request carrying the transcript
\* last evaluated was skipped.
C16_Witness ==
    /\ hist.skipped = "same"
    /\ fullTranscript = lastGateCheck
    /\ gateCalls = <<>>

\* C17: the return of a gate call, by any path, leaves the guard released, and
\* with no call in flight a segment that makes the transcript long enough and
\* different from the last one evaluated starts a call.
C17_Step ==
    /\ Len(gateCalls') < Len(gateCalls) => ~isGating'
    /\ (gateCalls = <<>> /\ segments' = segments + 1 /\ ~generationPaused
            /\ Len(fullTranscript') > (IF Len(acceptedSlides) = 0 THEN 20 ELSE 30)
            /\ fullTranscript' # lastGateCheck)
         => /\ Len(gateCalls') = 1
            /\ gateCalls'[1].transcript = fullTranscript'

C17_GuardReleased == [][C17_Step]_vars

\* C17 witness: a call started after an earlier one ended with a non-ok
\* answer or a thrown error.
C17_Witness ==
    /\ Len(gateCalls) = 1
    /\ hist.ended \in {"notok", "thrown"}
    /\ gateCalls[1].transcript = hist.lastEvaluated

\* C18: the step in which the gate accepts appends the idea to priorIdeas,
\* clears the transcript and hands the slide content to generateSlideImage,
\* and when that evaluation returns the Exploratory channel has one more entry.
C18_Step ==
    /\ \A i \in 1..Len(gateCalls) :
         GateAccept(i)
            => /\ priorIdeas' = Append(priorIdeas, gateCalls[i].transcript)
               /\ fullTranscript' = <<>>
               /\ Len(gateCalls') = Len(gateCalls)
               /\ gateCalls'[i].phase = "image"
    /\ \A i \in 1..Len(gateCalls) :
         (gateCalls[i].phase = "image" /\ Len(gateCalls') < Len(gateCalls))
            => Len(exploratoryQueue') = Len(exploratoryQueue) + 1

C18_AcceptAddsOneSlide == [][C18_Step]_vars

\* C19: the step in which the gate rejects sets the status to the returned
\* reason (to "Waiting for more content..." when none is returned) and leaves
\* the transcript, priorIdeas, the channel, the ledger, the style references,
\* the slide counter and the pending context as they were.
C19_Step ==
    \A i \in 1..Len(gateCalls), reason \in GateReasons :
        GateReject(i, reason)
            => /\ gateStatus' = IF reason # "" THEN reason
                                ELSE "Waiting for more content..."
               /\ UNCHANGED <<fullTranscript, priorIdeas, exploratoryQueue,
                              acceptedSlides, styleReferences, slideCounter,
                              pendingExploratoryContext, lastGateCheck,
                              lastIdeaText, generationPaused, isProcessing>>

C19_RejectFrame == [][C19_Step]_vars

\* C19 witness: the gate has rejected a transcript, which is still accumulated.
C19_Witness ==
    /\ hist.ended = "rejected"
    /\ gateStatus = "Not enough content for a slide yet"
    /\ fullTranscript = lastGateCheck
    /\ Len(fullTranscript) > 20

\* C20: the step in which the gate call fails sets the status to "Gate check
\* failed" and keeps the transcript.
C20_Step ==
    \A i \in 1..Len(gateCalls), thrown \in BOOLEAN :
        GateFail(i, thrown)
            => /\ gateStatus' = "Gate check failed"
               /\ fullTranscript' = fullTranscript

C20_FailureStatus == [][C20_Step]_vars

\* C21: a gate call starts only in a step that appends a finalized segment
\* and leaves the transcript longer than 20 characters while the ledger is
\* empty, longer than 30 once it holds a slide; at or below that length no
\* call starts.
C21_Step ==
    Len(gateCalls') > Len(gateCalls)
        => /\ segments' = segments + 1
           /\ Len(fullTranscript') > (IF Len(acceptedSlides) = 0 THEN 20 ELSE 30)

C21_Threshold == [][C21_Step]_vars

\* C21 witness: with a slide accepted, a segment has made the transcript
\* exactly 30 characters long and no gate call was ever started.
C21_Witness ==
    /\ Len(acceptedSlides) > 0
    /\ Len(fullTranscript) = 30
    /\ segments = 1
    /\ gateCalls = <<>>
    /\ lastGateCheck = <<>>
    /\ hist.ended = ""

\* C22: the Style References never hold more than 2 entries.
C22_AtMostTwo == Len(styleReferences) <= 2

\* C22 witness: three slides are in the ledger and two style references.
C22_Witness ==
    /\ Len(acceptedSlides) = 3
    /\ Len(styleReferences) = 2

\* the style reference that entry k of the ledger gives
StyleOf(ledger, k) == [headline |-> ledger[k].headline, slideNumber |-> k]

Min(a, b) == IF a < b THEN a ELSE b

\* C23: in every state the Style References are the projections of the first
\* min(2, n) entries of the ledger, in the order of the ledger, and a step
\* that is not stop() leaves two style references as they are.
C23_Projection ==
    /\ Len(styleReferences) = Min(2, Len(acceptedSlides))
    /\ \A k \in 1..Len(styleReferences) :
          styleReferences[k] = StyleOf(acceptedSlides, k)

C23_Step ==
    /\ C23_Projection /\ C23_Projection'
    /\ (Len(styleReferences) = 2 /\ stops' = stops)
          => styleReferences' = styleReferences

C23_FirstTwo == [][C23_Step]_vars

\* C23 witness: in the session after a stop(), a third slide was accepted
\* whose headline differs from those of the two style references.
C23_Witness ==
    /\ stops = 1
    /\ Len(acceptedSlides) = 3
    /\ Len(styleReferences) = 2
    /\ acceptedSlides[3].headline # acceptedSlides[2].headline
    /\ acceptedSlides[3].headline # acceptedSlides[1].headline

\* C24: within a session the ledger only grows at its end and by one entry
\* per step; the use of a slide appends one entry, which has the id of the
\* slide that was at the cursor; and no id is twice in the ledger.
C24_Step ==
    /\ stops' = stops
          => /\ Len(acceptedSlides') \in {Len(acceptedSlides), Len(acceptedSlides) + 1}
             /\ SubSeq(acceptedSlides', 1, Len(acceptedSlides)) = acceptedSlides
    /\ \A channel \in ChannelTypes, headline \in HeadlineInputs :
          (HandleUseChannelSlide(channel, headline) /\ ChannelOf(channel).queue # <<>>)
             => /\ Len(acceptedSlides') = Len(acceptedSlides) + 1
                /\ acceptedSlides'[Len(acceptedSlides')].id =
                       ChannelOf(channel).queue[cursors[channel] + 1]

C24_NoIdTwice ==
    \A i, j \in 1..Len(acceptedSlides) :
        i # j => acceptedSlides[i].id # acceptedSlides[j].id

C24_AppendOnly == []C24_NoIdTwice /\ [][C24_Step]_vars

\* C24 witness: the three slides that arrived, one in each channel, are in
\* the ledger.
C24_Witness ==
    /\ Len(acceptedSlides) = 3
    /\ stops = 0
    /\ exploratoryQueue = <<>> /\ audienceQueue = <<>> /\ slidesQueue = <<>>
    /\ \E i \in 1..Len(dispatches) : dispatches[i].ctx.audienceQuestions # <<>>
    /\ \E i \in 1..Len(dispatches) :
          /\ dispatches[i].ctx.acceptedSlides # <<>>
          /\ dispatches[i].ctx.acceptedSlides[1].source = "exploratory"

Max(a, b) == IF a > b THEN a ELSE b

\* C29: in every state the cursor of each channel is at least 0 and at most
\* max(0, len - 1), and a navigation on a queue of at most one slide leaves
\* the cursor at 0.
C29_InBounds ==
    \A channel \in ChannelTypes :
        /\ 0 <= cursors[channel]
        /\ cursors[channel] <= Max(0, Len(ChannelOf(channel).queue) - 1)

C29_Step ==
    \A channel \in ChannelTypes, direction \in Directions :
        (NavigateChannel(channel, direction) /\ Len(ChannelOf(channel).queue) <= 1)
            => cursors'[channel] = 0

C29_CursorBounds == []C29_InBounds /\ [][C29_Step]_vars

\* C29 witness: the cursor of a channel is on the last of its three slides.
C29_Witness ==
    \E channel \in ChannelTypes :
        /\ Len(ChannelOf(channel).queue) = 3
        /\ cursors[channel] = 2

\* C30: the use of a non-empty channel removes the slide at the cursor and no
\* other, hands it to recordAcceptedSlide, leaves the other channels alone
\* and moves the cursor only as far as the new bounds force; on an empty
\* channel take returns null and changes nothing, with the cursor at 0.
C30_Step ==
    \A channel \in ChannelTypes, headline \in HeadlineInputs :
        LET ch == ChannelOf(channel)
            q == CASE channel = "exploratory" -> exploratoryQueue'
                   [] channel = "audience" -> audienceQueue'
                   [] channel = "slides" -> slidesQueue'
        IN (HandleUseChannelSlide(channel, headline) /\ ch.queue # <<>>)
              => /\ q = WithoutAt(ch.queue, ch.cursor + 1)
                 /\ acceptedSlides'[Len(acceptedSlides')].id = ch.queue[ch.cursor + 1]
                 /\ cursors'[channel] =
                        IF ch.cursor <= Len(q) - 1 THEN ch.cursor ELSE Max(0, Len(q) - 1)
                 /\ \A other \in ChannelTypes \ {channel} :
                       /\ cursors'[other] = cursors[other]
                       /\ (other = "exploratory" => exploratoryQueue' = exploratoryQueue)
                       /\ (other = "audience" => audienceQueue' = audienceQueue)
                       /\ (other = "slides" => slidesQueue' = slidesQueue)

C30_EmptyTake ==
    \A channel \in ChannelTypes :
        ChannelOf(channel).queue = <<>>
            => /\ Take(ChannelOf(channel)).slide = NoSlide
               /\ Take(ChannelOf(channel)).channel = [queue |-> <<>>, cursor |-> 0]

C30_Take == []C30_EmptyTake /\ [][C30_Step]_vars

\* C30 witness: the second of the two slides of the deck channel was used
\* with the cursor on it, and the cursor is back on the slide that is left.
C30_Witness ==
    /\ nextId = 3
    /\ stops = 0
    /\ slidesQueue = <<1>>
    /\ cursors["slides"] = 0
    /\ Len(acceptedSlides) = 1
    /\ acceptedSlides[1].id = 2
    /\ \E i \in 1..Len(dispatches) :
          /\ dispatches[i].ctx.acceptedSlides # <<>>
          /\ dispatches[i].ctx.acceptedSlides[1] = [id |-> 2, source |-> "slides"]

\* the slide numbers of the requests that this step stamps
NewStamps ==
    {dispatches'[i].slideNumber :
        i \in {k \in 1..Len(dispatches) :
                  dispatches[k].phase = "followup" /\ dispatches'[k].phase = "image"}}
    \cup (IF Len(gateCalls') = Len(gateCalls)
          THEN {gateCalls'[i].slideNumber :
                  i \in {k \in 1..Len(gateCalls) :
                            gateCalls[k].phase = "gate" /\ gateCalls'[k].phase = "image"}}
          ELSE {})
    \cup (IF Len(ideaCalls') > Len(ideaCalls)
          THEN {ideaCalls'[Len(ideaCalls')].slideNumber}
          ELSE {})

\* C25: a step other than stop() never lowers the slide counter and stop()
\* sets it to 0; a request stamped in a step carries the new value of the
\* counter, which is greater than the number of every request stamped
\* earlier in the session, whether or not those are still in flight.
C25_Step ==
    /\ stops' = stops => slideCounter' >= slideCounter
    /\ stops' = stops + 1 => slideCounter' = 0
    /\ \A n \in NewStamps :
          /\ n = slideCounter'
          /\ \A k \in 1..Len(hist.stamps) : n > hist.stamps[k]
          /\ hist'.stamps = Append(hist.stamps, n)

C25_Monotonic == [][C25_Step]_vars

\* C25 witness: in the session after a stop(), a request of the gate, one of
\* processIdea and one of the scheduler are in flight together.
C25_Witness ==
    /\ stops = 1
    /\ Len(hist.stamps) = 3
    /\ \E i \in 1..Len(gateCalls) : gateCalls[i].phase = "image"
    /\ ideaCalls # <<>>
    /\ \E i \in 1..Len(dispatches) : dispatches[i].phase = "image"

\* C26: a dispatch adds at most one slide to the Exploratory channel, and a
\* step of a dispatch lengthens the channel by at most one slide, whatever
\* the number of follow-ups in the answer of the follow-up service.
C26_Step ==
    /\ Len(exploratoryQueue') <= Len(exploratoryQueue) + 1
    /\ \A i \in 1..Len(dispatches) :
          (stops' = stops /\ dispatches'[i].added # dispatches[i].added)
              => /\ dispatches[i].added = 0
                 /\ dispatches'[i].added = 1
                 /\ exploratoryQueue' =
                        AddToExploratoryChannel(exploratoryQueue,
                                                dispatches[i].slideNumber)

C26_AllAtMostOne == \A i \in 1..Len(dispatches) : dispatches[i].added <= 1

C26_AtMostOneSlide == []C26_AllAtMostOne /\ [][C26_Step]_vars

\* C26 witness: a dispatch whose answer held several follow-ups has
\* completed and has added one slide.
C26_Witness ==
    \E i \in Known :
        /\ dispatches[i].phase = "done"
        /\ dispatches[i].several
        /\ dispatches[i].added = 1
        /\ exploratoryQueue = <<dispatches[i].slideNumber>>

\* C27: every dispatch reported successful to the scheduler has added one
\* slide to the Exploratory channel.
C27_SuccessAddsSlide ==
    \A i \in Known :
        (dispatches[i].phase = "done" /\ dispatches[i].result = "ok")
            => dispatches[i].added = 1

\* C28: when the follow-up call or the slide generation call of a dispatch
\* fails, the dispatch is reported failed and the Exploratory channel is
\* left as it was.
C28_Step ==
    \A i \in 1..Len(dispatches) :
        LET followupFailed ==
                /\ dispatches[i].phase = "followup"
                /\ dispatches'[i].phase = "done"
                /\ dispatches'[i].result = "fail"
            generationFailed ==
                /\ dispatches[i].phase = "image"
                /\ dispatches'[i].phase = "done"
                /\ ~dispatches'[i].slide
        IN (stops' = stops /\ (followupFailed \/ generationFailed))
               => /\ dispatches'[i].result = "fail"
                  /\ exploratoryQueue' = exploratoryQueue

C28_FailureReported == [][C28_Step]_vars

\* C31: the Exploratory channel never holds more than 10 slides and its
\* cursor is within bounds; an append keeps the newest slide last and, of the
\* slides before it, the newest that fit, in their order.
C31_Bounded ==
    /\ Len(exploratoryQueue) <= 10
    /\ cursors["exploratory"] >= 0
    /\ cursors["exploratory"] <= Max(0, Len(exploratoryQueue) - 1)

C31_Step ==
    nextId' = nextId + 1 =>
        LET q == Append(exploratoryQueue, nextId)
            kept == Len(exploratoryQueue')
        IN /\ kept = Min(Len(q), 10)
           /\ \A k \in 1..kept : exploratoryQueue'[k] = q[Len(q) - kept + k]
           /\ cursors' = cursors

C31_Capacity == []C31_Bounded /\ [][C31_Step]_vars

\* C31 witness: the channel is full, its oldest slides have been dropped and
\* the cursor is on its last slide.
C31_Witness ==
    /\ Len(exploratoryQueue) = 10
    /\ exploratoryQueue[1] = 3
    /\ exploratoryQueue[10] = 12
    /\ cursors["exploratory"] = 9

\* a finalized segment is delivered in gated mode in this step
HeardGated ==
    /\ hist'.lastFinal # hist.lastFinal
    /\ hist'.lastFinal.mode = "gated"

\* C32 as stated: a finalized segment delivered in gated mode is joined to
\* the accumulator with one space, unless it equals the finalized segment
\* delivered immediately before it, and then the accumulator stays as it is.
C32_OriginalStep ==
    HeardGated =>
        fullTranscript' =
            IF hist'.lastFinal.text = hist.lastFinal.text
            THEN fullTranscript
            ELSE IF fullTranscript = <<>>
                 THEN hist'.lastFinal.text
                 ELSE fullTranscript \o <<" ">> \o hist'.lastFinal.text

C32_JoinedUnlessRepeated == [][C32_OriginalStep]_vars

\* C32 amended: a finalized segment delivered in gated mode is left out
\* exactly when its trimmed text has at most 5 characters or equals the last
\* segment that was kept (lastIdeaText); otherwise it is joined to the
\* accumulator with one space. Nothing else lengthens the accumulator.
C32_Step ==
    /\ HeardGated =>
          fullTranscript' =
              IF Len(hist'.lastFinal.text) <= 5 \/ hist'.lastFinal.text = lastIdeaText
              THEN fullTranscript
              ELSE IF fullTranscript = <<>>
                   THEN hist'.lastFinal.text
                   ELSE fullTranscript \o <<" ">> \o hist'.lastFinal.text
    /\ fullTranscript' # fullTranscript => (HeardGated \/ fullTranscript' = <<>>)

C32_JoinedUnlessShortOrKept == [][C32_Step]_vars

\* C32 witness: two segments have been joined and a short segment delivered
\* after them has been left out.
C32_Witness ==
    /\ fullTranscript = Risks \o <<" ">> \o Rep("x", 21)
    /\ hist.lastFinal = [text |-> <<"h", "i">>, mode |-> "gated"]
    /\ lastIdeaText = Rep("x", 21)

\* a finalized segment is delivered in stream-of-consciousness mode in this step
HeardStream ==
    /\ hist'.lastFinal # hist.lastFinal
    /\ hist'.lastFinal.mode = "stream"

\* the step leaves the accumulator and the gate as they were
StreamFrame ==
    /\ fullTranscript' = fullTranscript
    /\ gateCalls' = gateCalls
    /\ isGating' = isGating
    /\ lastGateCheck' = lastGateCheck
    /\ gateStatus' = gateStatus

\* the step starts one generation request for the segment heard
SentAsIdea ==
    /\ ideaCalls' = Append(ideaCalls, [content |-> hist'.lastFinal.text,
                                       slideNumber |-> slideCounter'])
    /\ isProcessing'

\* C33 as stated: a finalized segment delivered in stream-of-consciousness
\* mode changes neither the accumulator nor the gate, and one of more than
\* 20 characters is sent to generation in the same step.
C33_OriginalStep ==
    HeardStream =>
        /\ StreamFrame
        /\ Len(hist'.lastFinal.text) > 20 => SentAsIdea

C33_LongSegmentSent == [][C33_OriginalStep]_vars

\* C33 amended: a finalized segment delivered in stream-of-consciousness
\* mode changes neither the accumulator nor the gate; it is sent to
\* generation in the same step exactly when it has more than 20 characters,
\* differs from the last kept segment and generation is not paused.
C33_Step ==
    HeardStream =>
        /\ StreamFrame
        /\ IF /\ Len(hist'.lastFinal.text) > 20
              /\ hist'.lastFinal.text # lastIdeaText
              /\ ~generationPaused
           THEN SentAsIdea
           ELSE ideaCalls' = ideaCalls /\ slideCounter' = slideCounter

C33_LongSegmentSentUnlessPausedOrKept == [][C33_Step]_vars

\* C33 witness: a segment heard in stream-of-consciousness mode is in
\* generation while the accumulator holds a segment heard in gated mode and
\* the gate has not been asked.
C33_Witness ==
    /\ fullTranscript = Risks
    /\ gateCalls = <<>>
    /\ hist.lastFinal = [text |-> Rep("x", 21), mode |-> "stream"]
    /\ ideaCalls = <<[content |-> Rep("x", 21), slideNumber |-> 1]>>

\* what stop() has reset is as stop() left it
ResetByStop(pending, last, queue, transcript, ideas, counter) ==
    /\ pending = EmptyContext
    /\ last = NeverGenerated
    /\ queue = <<>>
    /\ transcript = <<>>
    /\ ideas = <<>>
    /\ counter = 0

\* a call of dispatch i, begun before the last stop(), returns in this step
LateDispatchStep(i) ==
    /\ dispatches[i].session < stops
    /\ dispatches[i].phase # "done"
    /\ dispatches'[i].phase # dispatches[i].phase

\* a call of gate evaluation i, begun before the last stop(), returns in this step
LateGateStep(i) ==
    /\ gateCalls[i].session < stops
    /\ \/ Len(gateCalls') < Len(gateCalls)
       \/ /\ Len(gateCalls') = Len(gateCalls)
          /\ gateCalls'[i].phase # gateCalls[i].phase

\* C34: when a call of a dispatch or of a gate evaluation that was in flight
\* at stop() returns, with success or with failure, and what stop() reset
\* is still as stop() left it, it is so after the step too.
C34_Step ==
    ( /\ stops' = stops
      /\ ResetByStop(pendingExploratoryContext, lastExploratoryGeneration,
                     exploratoryQueue, fullTranscript, priorIdeas, slideCounter)
      /\ \/ \E i \in 1..Len(dispatches) : LateDispatchStep(i)
         \/ \E i \in 1..Len(gateCalls) : LateGateStep(i) )
    => ResetByStop(pendingExploratoryContext', lastExploratoryGeneration',
                   exploratoryQueue', fullTranscript', priorIdeas', slideCounter')

C34_ResetNotUndone == [][C34_Step]_vars

\* the /api/slide-gate call of gate evaluation i returns in this step
GateReturns(i) ==
    /\ gateCalls[i].phase = "gate"
    /\ \/ Len(gateCalls') < Len(gateCalls)
       \/ /\ Len(gateCalls') = Len(gateCalls)
          /\ gateCalls'[i].phase = "image"

\* C35: when a gate evaluation returns, whatever its answer, either the
\* accumulator holds nothing but the transcript that was sent to it, or the
\* accumulator, with the segments appended while the call was in flight, is
\* left as it is.
C35_Step ==
    \A i \in 1..Len(gateCalls) :
        (stops' = stops /\ GateReturns(i))
            => \/ fullTranscript = gateCalls[i].transcript
               \/ fullTranscript' = fullTranscript

C35_SegmentsInFlightKept == [][C35_Step]_vars

\* C36: the step in which the presenter accepts a slide starts at most one
\* dispatch, and when it starts one for an audience-question slide, that
\* dispatch carries both the audience-question payload and the
\* accepted-slide payload of the slide.
C36_Step ==
    (stops' = stops /\ Len(acceptedSlides') = Len(acceptedSlides) + 1)
        => /\ Len(dispatches') <= Len(dispatches) + 1
           /\ \A i \in (1..Len(dispatches')) \ (1..Len(dispatches)) :
                \A q \in Range(dispatches'[i].ctx.audienceQuestions) :
                    q.id = acceptedSlides'[Len(acceptedSlides')].id
                        => q \in Range(dispatches'[i].ctx.acceptedSlides)

C36_OneDispatchPerAcceptance == [][C36_Step]_vars

\* the payloads of a list are in the order in which they were enqueued
\* (payload ids are given in that order)
InEnqueueOrder(list) ==
    \A i, j \in 1..Len(list) : i < j => list[i].id < list[j].id

\* C37: each list of the Pending Exploratory Context is in order of enqueue,
\* so that its last entry is the payload enqueued last.
C37_PendingInOrder ==
    /\ InEnqueueOrder(pendingExploratoryContext.acceptedSlides)
    /\ InEnqueueOrder(pendingExploratoryContext.audienceQuestions)
    /\ InEnqueueOrder(pendingExploratoryContext.presenterPrompts)

\* the transcript sent with a gate call is still at the head of the accumulator
HeldInAccumulator(sent, accumulator) ==
    /\ Len(accumulator) >= Len(sent)
    /\ SubSeq(accumulator, 1, Len(sent)) = sent

\* C38: when a dispatch or a gate evaluation that began while generation was
\* not paused ends while it is paused, a slide has been added to the
\* Exploratory channel for it, or its content is still held: the snapshot of
\* the dispatch is back in the Pending Exploratory Context, the transcript
\* of the gate evaluation is still in the accumulator.
C38_Step ==
    /\ \A i \in 1..Len(dispatches) :
          ( /\ stops' = stops
            /\ generationPaused
            /\ ~dispatches[i].paused
            /\ dispatches[i].phase # "done"
            /\ dispatches'[i].phase = "done" )
          => \/ dispatches'[i].added >= 1
             \/ KeysOf(dispatches[i].ctx) \subseteq KeysOf(pendingExploratoryContext')
    /\ \A i \in 1..Len(gateCalls) :
          ( /\ stops' = stops
            /\ generationPaused
            /\ Len(gateCalls') < Len(gateCalls) )
          => \/ /\ gateCalls[i].phase = "image"
                /\ exploratoryQueue' =
                       AddToExploratoryChannel(exploratoryQueue,
                                               gateCalls[i].slideNumber)
             \/ HeldInAccumulator(gateCalls[i].transcript, fullTranscript')

C38_PauseLosesNothing == [][C38_Step]_vars

\* C39: the first finalized segment delivered in gated mode in a session
\* that follows a stop(), when it has more than 5 characters, is joined to
\* the accumulator, whatever the sessions before it have heard.
C39_Step ==
    ( /\ stops >= 1
      /\ hist.lastFinal = NoSegment
      /\ HeardGated
      /\ Len(hist'.lastFinal.text) > 5 )
    => /\ fullTranscript' # fullTranscript
       /\ HeldInAccumulator(hist'.lastFinal.text, fullTranscript')

C39_FilterPerSession == [][C39_Step]_vars

\* C40: isProcessing is true whenever a follow-up call or a slide generation
\* call is in flight: for a dispatch, for an accepted gate evaluation or for
\* an idea of stream-of-consciousness mode.
C40_ProcessingWhileInFlight ==
    ( \/ InFlight # {}
      \/ \E i \in 1..Len(gateCalls) : gateCalls[i].phase = "image"
      \/ ideaCalls # <<>> )
    => isProcessing

====
